---- MODULE Spec2Model ----
(***************************************************************************)
(* Model of the schema-grounding pipeline of graph_text2sql:               *)
(*   SimpleCache (src/src/utils.py), GraphEnhancedText2SQL.process_question*)
(*   (src/src/text2sql.py), SubgraphRetriever (src/src/graph_query/        *)
(*   subgraph_retriever.py), SchemaPruner (src/src/graph_query/            *)
(*   schema_pruner.py), EntityMatcher (src/src/entity_linking/             *)
(*   entity_matcher.py), KeywordExtractor (src/src/entity_linking/         *)
(*   keyword_extractor.py) and SQLGenerator (src/src/llm_integration/      *)
(*   sql_generator.py).                                                    *)
(*                                                                         *)
(* One module, several specifications, one per component:                  *)
(*   SpecCache     a single caller issuing set / get / clear / size        *)
(*   SpecConc      two threads running get / set bytecode-interleaved      *)
(*   Spec          process_question calls of a single caller               *)
(*   SpecRetrieve  retrieve_subgraph applied to drawn bundles and graphs   *)
(*   SpecPrune     prune_schema applied to drawn subgraphs                 *)
(*   SpecMatch     match_entities applied to drawn keywords and stores    *)
(*   SpecRequest   process_question against a graph store that may fail   *)
(*   SpecPrompt    create_prompt_context applied to drawn pruned schemas  *)
(*   SpecKey       the cache keys of successive questions                 *)
(*   SpecExtract   extract called repeatedly on one extractor             *)
(*   SpecHighlight _identify_highlighted_columns applied to drawn bundles *)
(*   SpecScan      _extract_with_regex applied to drawn question texts    *)
(*   SpecGenerate  one generate_sql call of SQLGenerator                  *)
(* A specification leaves the variables of the other components at their   *)
(* idle values.                                                            *)
(***************************************************************************)
EXTENDS Integers, Sequences, FiniteSets, TLC

VARIABLES
    cache,      \* SimpleCache.cache: the dict, as the sequence of its items in dict order
    max_size,   \* SimpleCache.max_size
    ttl,        \* SimpleCache.ttl
    now,        \* the wall clock read by datetime.now().timestamp()
    lastOp,     \* the last cache call of the single caller: its arguments, pre-state and result
    inserted,   \* history: while onlySets, the distinct keys set so far, in order
    onlySets,   \* history: every set so far was of a new key and nothing else removed an entry
    threads,    \* SpecConc: each thread's call in progress
    calls,      \* Spec: the last two process_question calls, newest first
    retr,       \* SpecRetrieve: inputs and result of retrieve_subgraph
    prune,      \* SpecPrune: inputs and result of prune_schema
    match,      \* SpecMatch: inputs and result of match_entities
    req,        \* SpecRequest: one process_question call, stage by stage
    prompt,     \* SpecPrompt: inputs and result of create_prompt_context
    ask,        \* SpecKey: the questions asked and their cache keys
    extr,       \* SpecExtract: the extractor and its last two extract calls
    high,       \* SpecHighlight: inputs and result of _identify_highlighted_columns
    scan,       \* SpecScan: a question text and the result of _extract_with_regex
    gen         \* SpecGenerate: one generate_sql call, attempt by attempt

vars == <<cache, max_size, ttl, now, lastOp, inserted, onlySets, threads, calls, retr, prune, match, req, prompt, ask, extr, high, scan, gen>>

cacheVars == <<cache, max_size, ttl, now, lastOp, inserted, onlySets>>

\* the variables of SpecCache, SpecConc, Spec, SpecRetrieve and SpecPrune
coreVars == <<cache, max_size, ttl, now, lastOp, inserted, onlySets, threads, calls, retr, prune>>

----------------------------------------------------------------------------
(* Bounds of the model *)

\* the cache keys are 1..NumKeys
NumKeys == 3
\* the clock runs from 0 to MaxTime
MaxTime == 3

Keys == 1..NumKeys
\* the values stored: any objects, distinct from None
Values == {[v |-> "a"], [v |-> "b"]}
\* max_size and ttl handed to the constructor; max_size >= 1 (a cache of
\* capacity 0 raises in every set and stores nothing)
MaxSizeChoices == {1, 2}
TtlChoices == {0, 1}

\* Python's None
None == [none |-> TRUE]
\* a field that holds no text
NoText == "None"
Idle == "idle"

----------------------------------------------------------------------------
(* SimpleCache: src/src/utils.py 241-285 *)

\* the keys of the dict
KeysOf(c) == {c[i].key : i \in DOMAIN c}

\* self.cache[key]
Entry(c, k) == c[CHOOSE i \in DOMAIN c : c[i].key = k]

\* del self.cache[key]: the other items keep their order
Delete(c, k) == SelectSeq(c, LAMBDA e : e.key # k)

\* self.cache[key] = {...}: an existing key keeps its place in the dict, a new
\* key goes last
Store(c, k, v, t) ==
    LET e == [key |-> k, value |-> v, timestamp |-> t]
    IN  IF k \in KeysOf(c)
        THEN [i \in DOMAIN c |-> IF c[i].key = k THEN e ELSE c[i]]
        ELSE Append(c, e)

\* mutant of Expired: the boundary now - t0 = ttl counts as expired
ExpiredAtBoundary(ts, t, life) == t - ts >= life

\* utils.py 262: datetime.now().timestamp() - entry["timestamp"] > self.ttl
Expired(ts, t, life) == t - ts > life

\* mutant of OldestKey: the newest entry is the victim
NewestKey(c) ==
    LET i == CHOOSE j \in DOMAIN c :
                 /\ \A m \in DOMAIN c : c[j].timestamp >= c[m].timestamp
                 /\ \A m \in 1..(j - 1) : c[m].timestamp < c[j].timestamp
    IN  c[i].key

\* utils.py 272-274: min(self.cache.keys(), key=timestamp): the first key in
\* dict order among those of the smallest timestamp
OldestKey(c) ==
    LET i == CHOOSE j \in DOMAIN c :
                 /\ \A m \in DOMAIN c : c[j].timestamp <= c[m].timestamp
                 /\ \A m \in 1..(j - 1) : c[m].timestamp > c[j].timestamp
    IN  c[i].key

\* mutant of CacheGet: an expired entry is a miss but stays in the dict
CacheGetKeepExpired(c, k, t, life) ==
    IF k \notin KeysOf(c) THEN [cache |-> c, result |-> None]
    ELSE IF Expired(Entry(c, k).timestamp, t, life)
         THEN [cache |-> c, result |-> None]
         ELSE [cache |-> c, result |-> Entry(c, k).value]

\* SimpleCache.get, utils.py 254-266: the dict after the call and the value returned
CacheGet(c, k, t, life) ==
    IF k \notin KeysOf(c) THEN [cache |-> c, result |-> None]
    ELSE IF Expired(Entry(c, k).timestamp, t, life)
         THEN [cache |-> Delete(c, k), result |-> None]
         ELSE [cache |-> c, result |-> Entry(c, k).value]

\* mutant of CacheSet: no eviction when full
CacheSetNoEvict(c, k, v, t, max) == Store(c, k, v, t)

\* SimpleCache.set, utils.py 268-277 (max >= 1, so min() has an argument)
CacheSet(c, k, v, t, max) ==
    IF Len(c) >= max
    THEN Store(Delete(c, OldestKey(c)), k, v, t)
    ELSE Store(c, k, v, t)

\* SimpleCache.clear, utils.py 279-281
CacheClear(c) == << >>

\* SimpleCache.size, utils.py 283-285
CacheSize(c) == Len(c)

----------------------------------------------------------------------------
(* The single caller of SpecCache *)

IdleThreads == Idle
IdleCalls == << >>
IdleRetr == Idle
IdlePrune == Idle

\* match_entities, the request stages, create_prompt_context, the key
\* derivation, the extractor and the highlighting are not running
LaterIdle ==
    /\ match = Idle
    /\ req = Idle
    /\ prompt = Idle
    /\ ask = Idle
    /\ extr = Idle
    /\ high = Idle
    /\ scan = Idle
    /\ gen = Idle

\* the pattern scan and the SQL generator are not running
LastIdle ==
    /\ scan = Idle
    /\ gen = Idle

\* the cache, the pipeline, the retriever and the pruner are not running
CoreIdle ==
    /\ cache = << >>
    /\ max_size = 1
    /\ ttl = 0
    /\ now = 0
    /\ lastOp = [op |-> "init"]
    /\ inserted = << >>
    /\ onlySets = TRUE
    /\ threads = IdleThreads
    /\ calls = IdleCalls
    /\ retr = IdleRetr
    /\ prune = IdlePrune

\* SimpleCache.__init__, utils.py 244-252
InitCache ==
    /\ cache = << >>
    /\ max_size \in MaxSizeChoices
    /\ ttl \in TtlChoices
    /\ now = 0
    /\ lastOp = [op |-> "init"]
    /\ inserted = << >>
    /\ onlySets = TRUE
    /\ threads = IdleThreads
    /\ calls = IdleCalls
    /\ retr = IdleRetr
    /\ prune = IdlePrune
    /\ LaterIdle

\* the wall clock advances between calls
Tick ==
    /\ now < MaxTime
    /\ now' = now + 1
    /\ UNCHANGED <<cache, max_size, ttl, lastOp, inserted, onlySets, threads, calls, retr, prune, match, req, prompt, ask, extr, high, scan, gen>>

\* cache.set(k, v)
Set(k, v) ==
    /\ cache' = CacheSet(cache, k, v, now, max_size)
    /\ lastOp' = [op |-> "set", key |-> k, value |-> v, at |-> now, pre |-> cache]
    /\ onlySets' = (onlySets /\ ~(\E i \in DOMAIN inserted : inserted[i] = k))
    /\ inserted' = IF onlySets' THEN Append(inserted, k) ELSE << >>
    /\ UNCHANGED <<max_size, ttl, now, threads, calls, retr, prune, match, req, prompt, ask, extr, high, scan, gen>>

\* cache.get(k)
Get(k) ==
    LET r == CacheGet(cache, k, now, ttl)
    IN  /\ cache' = r.cache
        /\ lastOp' = [op |-> "get", key |-> k, at |-> now, pre |-> cache, result |-> r.result]
        /\ onlySets' = (onlySets /\ r.cache = cache)
        /\ inserted' = IF onlySets' THEN inserted ELSE << >>
        /\ UNCHANGED <<max_size, ttl, now, threads, calls, retr, prune, match, req, prompt, ask, extr, high, scan, gen>>

\* cache.clear()
Clear ==
    /\ cache' = CacheClear(cache)
    /\ lastOp' = [op |-> "clear", pre |-> cache]
    /\ onlySets' = (onlySets /\ cache = << >>)
    /\ inserted' = IF onlySets' THEN inserted ELSE << >>
    /\ UNCHANGED <<max_size, ttl, now, threads, calls, retr, prune, match, req, prompt, ask, extr, high, scan, gen>>

NextCache ==
    \/ Tick
    \/ \E k \in Keys, v \in Values : Set(k, v)
    \/ \E k \in Keys : Get(k)
    \/ Clear

SpecCache == InitCache /\ [][NextCache]_vars

----------------------------------------------------------------------------
(* Claims about SimpleCache under SpecCache *)

\* C1: after any sequence of set, get and clear calls of a single caller the
\* number of stored entries never exceeds max_size.
C1_SizeBounded == CacheSize(cache) <= max_size

\* a set has just been made on a cache that was already full
C1_SetOnFullCache ==
    /\ lastOp.op = "set"
    /\ Len(lastOp.pre) = max_size
    /\ lastOp.key \notin KeysOf(lastOp.pre)
    /\ CacheSize(cache) = max_size

\* the entry of the pre-state that the last set removed, if it removed exactly one
Evicted(pre, post) == {i \in DOMAIN pre : pre[i].key \notin KeysOf(post)}

\* C2: a set of a new key on a cache holding max_size entries removes exactly
\* one entry, one of the smallest timestamp (expired or not; gets in between do
\* not change an entry's age), keeps all others and stores the new key; and in
\* a run of sets of distinct keys that has put max_size + k keys (k > 0) the
\* size is max_size and the k keys set first are absent.
C2_EvictsOldest ==
    /\ (lastOp.op = "set" /\ lastOp.key \notin KeysOf(lastOp.pre)
            /\ Len(lastOp.pre) = max_size)
        => /\ Cardinality(Evicted(lastOp.pre, cache)) = 1
           /\ \A i \in Evicted(lastOp.pre, cache) : \A m \in DOMAIN lastOp.pre :
                  lastOp.pre[i].timestamp <= lastOp.pre[m].timestamp
           /\ \A m \in DOMAIN lastOp.pre :
                  m \notin Evicted(lastOp.pre, cache)
                      => \E j \in DOMAIN cache : cache[j] = lastOp.pre[m]
           /\ lastOp.key \in KeysOf(cache)
           /\ Len(cache) = max_size
    /\ (onlySets /\ Len(inserted) > max_size)
        => /\ CacheSize(cache) = max_size
           /\ \A i \in 1..(Len(inserted) - max_size) : inserted[i] \notin KeysOf(cache)

\* more than max_size distinct keys have been set and the entry the last set
\* evicted had not expired and was strictly older than another stored entry
C2_UnexpiredEvicted ==
    /\ onlySets
    /\ Len(inserted) > max_size
    /\ lastOp.op = "set"
    /\ Len(lastOp.pre) = max_size
    /\ \E i \in Evicted(lastOp.pre, cache) :
           /\ lastOp.at - lastOp.pre[i].timestamp <= ttl
           /\ \E m \in DOMAIN lastOp.pre : lastOp.pre[m].timestamp > lastOp.pre[i].timestamp

\* C3: get of a stored key returns the stored value and leaves the cache
\* unchanged when now - t0 <= ttl; when now - t0 > ttl it returns None and
\* removes that entry only, so the size drops by one; get of a key that is not
\* stored returns None.
C3_GetHonoursTtl ==
    lastOp.op = "get" =>
        IF lastOp.key \in KeysOf(lastOp.pre)
        THEN LET e == Entry(lastOp.pre, lastOp.key)
             IN  IF lastOp.at - e.timestamp <= ttl
                 THEN lastOp.result = e.value /\ cache = lastOp.pre
                 ELSE /\ lastOp.result = None
                      /\ lastOp.key \notin KeysOf(cache)
                      /\ CacheSize(cache) = CacheSize(lastOp.pre) - 1
                      /\ \A m \in DOMAIN lastOp.pre :
                             lastOp.pre[m].key # lastOp.key
                                 => \E j \in DOMAIN cache : cache[j] = lastOp.pre[m]
        ELSE lastOp.result = None /\ cache = lastOp.pre

\* a get exactly ttl > 0 after the set of its key: still a hit
C3_HitAtTtl ==
    /\ lastOp.op = "get"
    /\ lastOp.key \in KeysOf(lastOp.pre)
    /\ ttl > 0
    /\ lastOp.at - Entry(lastOp.pre, lastOp.key).timestamp = ttl
    /\ lastOp.result \in Values

\* C29: calling SimpleCache.set for a key that is already stored replaces
\* that key's value and timestamp and leaves every other stored key in the
\* cache, also when the cache holds max_size entries.
C29_SetExistingKeepsOthers ==
    (lastOp.op = "set" /\ lastOp.key \in KeysOf(lastOp.pre)) =>
        /\ Entry(cache, lastOp.key).value = lastOp.value
        /\ Entry(cache, lastOp.key).timestamp = lastOp.at
        /\ \A k \in KeysOf(lastOp.pre) \ {lastOp.key} :
               /\ k \in KeysOf(cache)
               /\ Entry(cache, k) = Entry(lastOp.pre, k)

----------------------------------------------------------------------------
(* SimpleCache shared by concurrently processed questions: SpecConc.       *)
(* SimpleCache takes no lock (utils.py 241-285) and process_question calls *)
(* get and set on the one instance (text2sql.py 216, 272), so the threads  *)
(* of a concurrent host interleave between the statements of get and set.  *)
(* min() over the dict is taken as one step.                               *)

Threads == {"t1", "t2"}
\* the keys and the value the threads use, and the last clock reading
ConcKeys == {1, 2}
ConcValue == [v |-> "a"]
ConcMaxTime == 2

Ready == [pc |-> "ready", key |-> None, value |-> None, tmp |-> None]
\* the call has returned v to its caller
Returned(v) == [pc |-> "returned", key |-> None, value |-> v, tmp |-> None]
\* the call has raised (KeyError, ValueError) to its caller
Raised == [pc |-> "raised", key |-> None, value |-> None, tmp |-> None]

InitConc ==
    /\ cache = << >>
    /\ max_size \in MaxSizeChoices
    /\ ttl \in TtlChoices
    /\ now = 0
    /\ lastOp = [op |-> "init"]
    /\ inserted = << >>
    /\ onlySets = TRUE
    /\ threads = [t \in Threads |-> Ready]
    /\ calls = IdleCalls
    /\ retr = IdleRetr
    /\ prune = IdlePrune
    /\ LaterIdle

concFrame == <<max_size, ttl, lastOp, inserted, onlySets, calls, retr, prune, match, req, prompt, ask, extr, high, scan, gen>>

\* a thread that is not inside a call enters get(k)
CallGet(t, k) ==
    /\ threads[t].pc \in {"ready", "returned", "raised"}
    /\ threads' = [threads EXCEPT ![t] = [pc |-> "get_in", key |-> k, value |-> None, tmp |-> None]]
    /\ UNCHANGED <<cache, now>> /\ UNCHANGED concFrame

\* a thread that is not inside a call enters set(k, v)
CallSet(t, k, v) ==
    /\ threads[t].pc \in {"ready", "returned", "raised"}
    /\ threads' = [threads EXCEPT ![t] = [pc |-> "set_len", key |-> k, value |-> v, tmp |-> None]]
    /\ UNCHANGED <<cache, now>> /\ UNCHANGED concFrame

\* utils.py 256-257: if key not in self.cache: return None
GetIn(t) ==
    /\ threads[t].pc = "get_in"
    /\ threads' = [threads EXCEPT ![t] =
                       IF threads[t].key \in KeysOf(cache)
                       THEN [@ EXCEPT !.pc = "get_entry"] ELSE Returned(None)]
    /\ UNCHANGED <<cache, now>> /\ UNCHANGED concFrame

\* utils.py 259: entry = self.cache[key], a KeyError when the key has gone
GetEntry(t) ==
    /\ threads[t].pc = "get_entry"
    /\ threads' = [threads EXCEPT ![t] =
                       IF threads[t].key \in KeysOf(cache)
                       THEN [@ EXCEPT !.pc = "get_ttl", !.tmp = Entry(cache, threads[t].key)]
                       ELSE Raised]
    /\ UNCHANGED <<cache, now>> /\ UNCHANGED concFrame

\* utils.py 262, 266: the expiry test on the entry read, return entry["value"]
GetTtl(t) ==
    /\ threads[t].pc = "get_ttl"
    /\ threads' = [threads EXCEPT ![t] =
                       IF Expired(threads[t].tmp.timestamp, now, ttl)
                       THEN [@ EXCEPT !.pc = "get_del"]
                       ELSE Returned(threads[t].tmp.value)]
    /\ UNCHANGED <<cache, now>> /\ UNCHANGED concFrame

\* utils.py 263-264: del self.cache[key], a KeyError when the key has gone
GetDel(t) ==
    /\ threads[t].pc = "get_del"
    /\ IF threads[t].key \in KeysOf(cache)
       THEN /\ cache' = Delete(cache, threads[t].key)
            /\ threads' = [threads EXCEPT ![t] = Returned(None)]
       ELSE /\ cache' = cache
            /\ threads' = [threads EXCEPT ![t] = Raised]
    /\ UNCHANGED now /\ UNCHANGED concFrame

\* utils.py 271: if len(self.cache) >= self.max_size
SetLen(t) ==
    /\ threads[t].pc = "set_len"
    /\ threads' = [threads EXCEPT ![t].pc =
                       IF Len(cache) >= max_size THEN "set_min" ELSE "set_store"]
    /\ UNCHANGED <<cache, now>> /\ UNCHANGED concFrame

\* utils.py 272-274: oldest_key = min(...), a ValueError on an emptied dict
SetMin(t) ==
    /\ threads[t].pc = "set_min"
    /\ threads' = [threads EXCEPT ![t] =
                       IF cache = << >>
                       THEN Raised
                       ELSE [@ EXCEPT !.pc = "set_del", !.tmp = OldestKey(cache)]]
    /\ UNCHANGED <<cache, now>> /\ UNCHANGED concFrame

\* utils.py 275: del self.cache[oldest_key], a KeyError when the key has gone
SetDel(t) ==
    /\ threads[t].pc = "set_del"
    /\ IF threads[t].tmp \in KeysOf(cache)
       THEN /\ cache' = Delete(cache, threads[t].tmp)
            /\ threads' = [threads EXCEPT ![t].pc = "set_store"]
       ELSE /\ cache' = cache
            /\ threads' = [threads EXCEPT ![t] = Raised]
    /\ UNCHANGED now /\ UNCHANGED concFrame

\* utils.py 277: self.cache[key] = {"value": value, "timestamp": now}
SetStore(t) ==
    /\ threads[t].pc = "set_store"
    /\ cache' = Store(cache, threads[t].key, threads[t].value, now)
    /\ threads' = [threads EXCEPT ![t] = Returned(None)]
    /\ UNCHANGED now /\ UNCHANGED concFrame

\* the wall clock advances
TickConc ==
    /\ now < ConcMaxTime
    /\ now' = now + 1
    /\ UNCHANGED <<cache, threads>> /\ UNCHANGED concFrame

NextConc ==
    \/ TickConc
    \/ \E t \in Threads, k \in ConcKeys : CallGet(t, k)
    \/ \E t \in Threads, k \in ConcKeys : CallSet(t, k, ConcValue)
    \/ \E t \in Threads : GetIn(t)
    \/ \E t \in Threads : GetEntry(t)
    \/ \E t \in Threads : GetTtl(t)
    \/ \E t \in Threads : GetDel(t)
    \/ \E t \in Threads : SetLen(t)
    \/ \E t \in Threads : SetMin(t)
    \/ \E t \in Threads : SetDel(t)
    \/ \E t \in Threads : SetStore(t)

SpecConc == InitConc /\ [][NextConc]_vars

\* C4: under any interleaving of get and set calls of concurrently processed
\* questions no call fails because another call removed an entry in between,
\* and the number of stored entries stays within max_size.
C4_SerializedCache ==
    /\ \A t \in Threads : threads[t].pc # "raised"
    /\ Len(cache) <= max_size

----------------------------------------------------------------------------
(* GraphEnhancedText2SQL.process_question with the result cache enabled:   *)
(* Spec. text2sql.py 198-281.                                              *)

\* the question texts asked
Questions == {"list all users", "count orders"}
\* the clock of Spec runs from 0 to PipeMaxTime
PipeMaxTime == 1
\* what the language model may answer
Sqls == {"SELECT 1", "SELECT 2"}

\* what the collaborators do in one pipeline run: entity matching raises,
\* retrieval finds no table, the generator reports failure, or all succeed
Outcomes == {"match_raises", "no_tables", "generation_failed", "ok"}

\* the stages of text2sql.py 231-258 in order; match and retrieve probe the
\* graph store
AllStages == <<"match", "retrieve", "prune", "generate">>
ProbingStages == {"match", "retrieve"}

\* utils.py 110-120: md5 of the text, taken as collision free
HashText(q) == <<"md5", q>>

\* text2sql.py 222-281: one run of the pipeline on a cache miss: the result
\* dict and the stages entered
RunPipeline(q, outcome, sql) ==
    CASE outcome = "match_raises" ->
             [result |-> [question |-> q, sql |-> NoText, success |-> FALSE, error |-> "match"],
              stages |-> SubSeq(AllStages, 1, 1)]
      [] outcome = "no_tables" ->
             [result |-> [question |-> q, sql |-> NoText, success |-> FALSE, error |-> "no_tables"],
              stages |-> SubSeq(AllStages, 1, 2)]
      [] outcome = "generation_failed" ->
             [result |-> [question |-> q, sql |-> NoText, success |-> FALSE, error |-> "generation"],
              stages |-> AllStages]
      [] OTHER ->
             [result |-> [question |-> q, sql |-> sql, success |-> TRUE, error |-> NoText],
              stages |-> AllStages]

\* the number of stages of a run that probe the graph store
Probes(stages) == Cardinality({i \in DOMAIN stages : stages[i] \in ProbingStages})

\* mutant of ProcessQuestionOn: a successful result is not stored
ProcessQuestionNoStore(c, q, outcome, sql, use_cache, t, life, max) ==
    LET got == IF use_cache THEN CacheGet(c, HashText(q), t, life)
                            ELSE [cache |-> c, result |-> None]
        run == RunPipeline(q, outcome, sql)
    IN  IF got.result # None
        THEN [cache |-> got.cache, result |-> got.result, hit |-> TRUE, stages |-> << >>]
        ELSE [cache |-> got.cache, result |-> run.result, hit |-> FALSE, stages |-> run.stages]

\* mutant of ProcessQuestionOn: the result is stored whether or not it succeeded
ProcessQuestionStoreAll(c, q, outcome, sql, use_cache, t, life, max) ==
    LET got == IF use_cache THEN CacheGet(c, HashText(q), t, life)
                            ELSE [cache |-> c, result |-> None]
        run == RunPipeline(q, outcome, sql)
    IN  IF got.result # None
        THEN [cache |-> got.cache, result |-> got.result, hit |-> TRUE, stages |-> << >>]
        ELSE [cache |-> IF use_cache
                        THEN CacheSet(got.cache, HashText(q), run.result, t, max)
                        ELSE got.cache,
              result |-> run.result, hit |-> FALSE, stages |-> run.stages]

\* process_question, text2sql.py 198-281, on cache c at time t: the cache
\* after the call, the dict returned, whether it came from the cache, and the
\* stages entered
ProcessQuestionOn(c, q, outcome, sql, use_cache, t, life, max) ==
    LET got == IF use_cache THEN CacheGet(c, HashText(q), t, life)
                            ELSE [cache |-> c, result |-> None]
        run == RunPipeline(q, outcome, sql)
    IN  IF got.result # None
        THEN [cache |-> got.cache, result |-> got.result, hit |-> TRUE, stages |-> << >>]
        ELSE [cache |-> IF run.result.success /\ use_cache
                        THEN CacheSet(got.cache, HashText(q), run.result, t, max)
                        ELSE got.cache,
              result |-> run.result, hit |-> FALSE, stages |-> run.stages]

\* text2sql.py 58-65: the cache of a system configured with cache.enabled
Init ==
    /\ cache = << >>
    /\ max_size \in MaxSizeChoices
    /\ ttl \in TtlChoices
    /\ now = 0
    /\ lastOp = [op |-> "init"]
    /\ inserted = << >>
    /\ onlySets = TRUE
    /\ threads = IdleThreads
    /\ calls = << >>
    /\ retr = IdleRetr
    /\ prune = IdlePrune
    /\ LaterIdle

pipeFrame == <<max_size, ttl, lastOp, inserted, onlySets, threads, retr, prune, match, req, prompt, ask, extr, high, scan, gen>>

\* one call of process_question(q, use_cache) by the single caller
ProcessQuestion(q, outcome, sql, use_cache) ==
    LET r == ProcessQuestionOn(cache, q, outcome, sql, use_cache, now, ttl, max_size)
        call == [question |-> q, use_cache |-> use_cache, at |-> now,
                 size_before |-> CacheSize(cache),
                 hit |-> r.hit, stages |-> r.stages, result |-> r.result]
    IN  /\ cache' = r.cache
        /\ calls' = IF calls = << >> THEN <<call>> ELSE <<call, calls[1]>>
        /\ UNCHANGED now /\ UNCHANGED pipeFrame

\* the wall clock advances between calls
TickPipe ==
    /\ now < PipeMaxTime
    /\ now' = now + 1
    /\ UNCHANGED <<cache, calls>> /\ UNCHANGED pipeFrame

Next ==
    \/ TickPipe
    \/ \E q \in Questions, o \in Outcomes, uc \in BOOLEAN :
           \E sql \in IF o = "ok" THEN Sqls ELSE {NoText} :
               ProcessQuestion(q, o, sql, uc)

Spec == Init /\ [][Next]_vars

----------------------------------------------------------------------------
(* Claims about process_question and the cache under Spec *)

\* the last two calls asked the same question with caching on, the second no
\* later than ttl after the first
SameQuestionTwice ==
    /\ Len(calls) = 2
    /\ calls[1].question = calls[2].question
    /\ calls[1].use_cache /\ calls[2].use_cache
    /\ calls[1].at - calls[2].at <= ttl

\* the older call ran every stage; the newer one entered no stage, probed
\* nothing and returned the dict the older one returned
SecondServedFromCache ==
    /\ calls[2].stages = AllStages
    /\ calls[1].hit
    /\ calls[1].stages = << >>
    /\ Probes(calls[1].stages) = 0
    /\ calls[1].result = calls[2].result

\* C5 as stated: for any question, of two consecutive calls with the same
\* text (the second within the TTL) the first executes the full pipeline and
\* the second returns the cached value without any probe or later stage.
C5_AnyQuestionCached == SameQuestionTwice => SecondServedFromCache

\* C5 as amended: the same, for a first call that missed the cache and ended
\* with success == true.
C5_SuccessThenCached ==
    (SameQuestionTwice /\ ~calls[2].hit /\ calls[2].result.success)
        => SecondServedFromCache

\* a successful miss followed, exactly ttl > 0 later, by a hit for the same question
C5_HitAfterSuccess ==
    /\ SameQuestionTwice
    /\ ~calls[2].hit /\ calls[2].result.success
    /\ ttl > 0 /\ calls[1].at - calls[2].at = ttl
    /\ calls[1].hit
    /\ calls[1].result.sql \in Sqls

\* the entries of c2 that c1 does not hold
Created(c1, c2) == {j \in DOMAIN c2 : \A i \in DOMAIN c1 : c1[i] # c2[j]}

\* C6 as stated: an entry is created only by a call that missed and
\* succeeded, and a call that ends with success == false leaves the cache
\* contents exactly as they were.
C6_FailureLeavesCache ==
    [][cache' # cache =>
           /\ calls'[1].result.success
           /\ Created(cache, cache') # {} => ~calls'[1].hit]_vars

\* C6 as amended: an entry is created only by a call that missed and
\* succeeded; a call that ends with success == false creates and changes no
\* entry, and removes none but its own question's entry when that has expired.
C6_FailureAddsNothing ==
    [][cache' # cache =>
           LET c == calls'[1]
               k == HashText(c.question)
           IN  /\ Created(cache, cache') # {} =>
                      (~c.hit /\ c.result.success /\ c.use_cache)
               /\ ~c.result.success =>
                      /\ c.use_cache
                      /\ k \in KeysOf(cache)
                      /\ c.at - Entry(cache, k).timestamp > ttl
                      /\ Created(cache, cache') = {}
                      /\ \A i \in DOMAIN cache :
                             cache[i].key # k => \E j \in DOMAIN cache' : cache'[j] = cache[i]
                      /\ CacheSize(cache') = CacheSize(cache) - 1]_vars

\* a call has failed after its lookup dropped the expired entry of its question
C6_FailedCallDroppedExpired ==
    /\ calls # << >>
    /\ ~calls[1].result.success
    /\ calls[1].stages # << >>
    /\ CacheSize(cache) < calls[1].size_before

----------------------------------------------------------------------------
(* SubgraphRetriever.retrieve_subgraph: SpecRetrieve.                      *)
(* subgraph_retriever.py 38-278.  The graph store holds one Table node per *)
(* table of Tables and the FOREIGN_KEY edges of retr.graph.                *)

Tables == {"users", "orders", "items"}
\* the FOREIGN_KEY edges a graph may hold, <<from_table, to_table>>
EdgeChoices == {<<"orders", "users">>, <<"items", "orders">>, <<"items", "users">>}

\* max_hop_distance is drawn from 0..MaxHop, max_tables from 1..MaxTablesCfg
MaxHop == 2
MaxTablesCfg == 3

\* the match bundles: per category the tables the matches name (a matched
\* table, a related table of a matched concept, the owning table of a matched
\* column or value), two matches at most
Bundles ==
    {b \in [tables : SUBSET Tables, concepts : SUBSET Tables,
            columns : SUBSET Tables, values : SUBSET Tables] :
        Cardinality(b.tables) + Cardinality(b.concepts)
            + Cardinality(b.columns) + Cardinality(b.values) <= 2}

\* subgraph_retriever.py 78-101
GetEntryTables(b) == b.tables \cup b.concepts

\* subgraph_retriever.py 103-126
InferTablesFromColumns(b) == b.columns \cup b.values

\* mutant of EntryTables: the tables of matched columns and values always
\* count
EntryTablesWithOwners(b) == GetEntryTables(b) \cup InferTablesFromColumns(b)

\* subgraph_retriever.py 53-58: the entry tables the traversal starts from
EntryTables(b) ==
    IF GetEntryTables(b) # {} THEN GetEntryTables(b) ELSE InferTablesFromColumns(b)

\* (a)-[:FOREIGN_KEY]-(b), the edge taken in either direction
Adjacent(g, a, b) == <<a, b>> \in g \/ <<b, a>> \in g

\* the tables a path of at most n edges reaches from table e
RECURSIVE ReachWithin(_, _, _)
ReachWithin(g, e, n) ==
    IF n <= 0 THEN {e}
    ELSE LET r == ReachWithin(g, e, n - 1)
         IN  r \cup {t \in Tables : \E x \in r : Adjacent(g, x, t)}

\* mutant of RelatedTables: the pattern runs one hop too far
RelatedTablesOneMore(g, entry, d) ==
    IF d < 0 THEN {}
    ELSE UNION {ReachWithin(g, e, d + 1) \ {e} : e \in entry}

\* subgraph_retriever.py 145-150: the names returned by
\* MATCH (start)-[:FOREIGN_KEY*1..d]-(related) WHERE start.name IN entry.
\* (A start table that a cyclic path returns is an entry table already.)
RelatedTables(g, entry, d) ==
    IF d < 1 THEN {}
    ELSE UNION {ReachWithin(g, e, d) \ {e} : e \in entry}

\* subgraph_retriever.py 154-163: the query's names, [] when it raises
FindRelatedTables(g, entry, d, query_fails) ==
    IF entry = {} \/ query_fails THEN {} ELSE RelatedTables(g, entry, d)

\* list(set(...)): the orders in which a set of names may be enumerated
SetOrders(S) ==
    {o \in [1..Cardinality(S) -> S] : \A i, j \in DOMAIN o : i # j => o[i] # o[j]}

\* mutant of Truncate: nothing is cut
TruncateNothing(o, n) == o

\* [: self.max_tables]
Truncate(o, n) == SubSeq(o, 1, IF Len(o) < n THEN Len(o) ELSE n)

\* subgraph_retriever.py 70: list(set(entry_tables + related_tables))[: max_tables]
AllTablesChoices(entry, related, n) ==
    {Truncate(o, n) : o \in SetOrders(entry \cup related)}

Range(o) == {o[i] : i \in DOMAIN o}

\* subgraph_retriever.py 256-278: the FOREIGN_KEY edges with both ends in
\* tables, [] when the query raises
GetRelationships(g, tables, query_fails) ==
    IF query_fails THEN {}
    ELSE {e \in g : e[1] \in tables /\ e[2] \in tables}

\* mutant of BuildSubgraph: one failing sub-query empties the whole subgraph
BuildSubgraphAllOrNothing(g, b, all, missing, rel_fails) ==
    [tables |-> IF rel_fails \/ missing # {} THEN << >> ELSE all,
     relationships |-> IF rel_fails \/ missing # {} THEN {}
                       ELSE GetRelationships(g, Range(all), FALSE),
     total_tables |-> Len(all),
     entry_tables |-> GetEntryTables(b)]

\* subgraph_retriever.py 165-202: tables whose detail query raised or
\* returned no row (missing) are left out
BuildSubgraph(g, b, all, missing, rel_fails) ==
    [tables |-> SelectSeq(all, LAMBDA t : t \notin missing),
     relationships |-> GetRelationships(g, Range(all), rel_fails),
     total_tables |-> Len(all),
     entry_tables |-> GetEntryTables(b)]

\* subgraph_retriever.py 336-343
EmptySubgraph ==
    [tables |-> << >>, relationships |-> {}, total_tables |-> 0, entry_tables |-> {}]

\* subgraph_retriever.py 64-76, 165-202: the graph queries of a call that
\* found entry tables, in the order issued
GraphQueries(all) ==
    <<<<"find_related_tables">>>>
        \o [i \in DOMAIN all |-> <<"get_table_info", all[i]>>]
        \o <<<<"get_relationships">>>>

\* the sub-queries that raised (for a table's detail query: raised or
\* returned no row)
NoFailure == [traversal |-> FALSE, relationships |-> FALSE, details |-> {}]

InitRetrieve ==
    /\ cache = << >>
    /\ max_size \in {1}
    /\ ttl \in {0}
    /\ now = 0
    /\ lastOp = [op |-> "init"]
    /\ inserted = << >>
    /\ onlySets = TRUE
    /\ threads = IdleThreads
    /\ calls = IdleCalls
    /\ prune = IdlePrune
    /\ LaterIdle
    /\ \E g \in SUBSET EdgeChoices, b \in Bundles, d \in 0..MaxHop, n \in 1..MaxTablesCfg :
           retr = [phase |-> "input", graph |-> g, bundle |-> b,
                   max_hop_distance |-> d, max_tables |-> n,
                   entry |-> {}, related |-> {}, all_tables |-> << >>,
                   failed |-> NoFailure, queries |-> << >>,
                   subgraph |-> EmptySubgraph]

retrFrame == <<cache, max_size, ttl, now, lastOp, inserted, onlySets, threads, calls, prune, match, req, prompt, ask, extr, high, scan, gen>>

\* subgraph_retriever.py 60-62: no entry table can be derived; the call
\* returns _empty_subgraph() and has sent the graph store nothing
RetrieveEmpty ==
    /\ retr.phase = "input"
    /\ EntryTables(retr.bundle) = {}
    /\ retr' = [retr EXCEPT !.phase = "done"]
    /\ UNCHANGED retrFrame

\* subgraph_retriever.py 64-76: traversal, truncation and detail fetch; each
\* graph query may raise, and the set may be enumerated in any order
RetrieveSubgraph ==
    /\ retr.phase = "input"
    /\ EntryTables(retr.bundle) # {}
    /\ \E trav_fails \in BOOLEAN, rel_fails \in BOOLEAN :
         LET entry == EntryTables(retr.bundle)
             related == FindRelatedTables(retr.graph, entry, retr.max_hop_distance, trav_fails)
         IN  \E all \in AllTablesChoices(entry, related, retr.max_tables) :
               \E missing \in {{}} \cup {{t} : t \in Range(all)} :
                 retr' = [retr EXCEPT !.phase = "done", !.entry = entry,
                              !.related = related, !.all_tables = all,
                              !.failed = [traversal |-> trav_fails,
                                          relationships |-> rel_fails,
                                          details |-> missing],
                              !.queries = GraphQueries(all),
                              !.subgraph = BuildSubgraph(retr.graph, retr.bundle, all,
                                                         missing, rel_fails)]
    /\ UNCHANGED retrFrame

NextRetrieve ==
    \/ RetrieveEmpty
    \/ RetrieveSubgraph

SpecRetrieve == InitRetrieve /\ [][NextRetrieve]_vars

----------------------------------------------------------------------------
(* Claims about retrieve_subgraph under SpecRetrieve *)

\* a chain of at most n foreign-key edges, in either direction, joins a and b
PathWithin(g, a, b, n) ==
    \E m \in 0..n : \E p \in [0..m -> Tables] :
        /\ p[0] = a /\ p[m] = b
        /\ \A i \in 0..(m - 1) : Adjacent(g, p[i], p[i + 1])

\* the hop distance of t from the nearest entry table
HopsFromEntry(g, entry, t) ==
    CHOOSE n \in 0..Cardinality(Tables) :
        /\ \E e \in entry : PathWithin(g, e, t, n)
        /\ \A m \in 0..(n - 1) : ~\E e \in entry : PathWithin(g, e, t, m)

\* C7: when the entry tables plus the tables reached exceed max_tables, the
\* truncation drops no entry table (as long as the entry tables alone fit)
\* and every dropped table is at least as far from the entry tables as every
\* kept one.
C7_TruncatesFarthestFirst ==
    (retr.phase = "done" /\ retr.entry # {}
        /\ Cardinality(retr.entry \cup retr.related) > retr.max_tables)
    => /\ Cardinality(retr.entry) <= retr.max_tables
              => retr.entry \subseteq Range(retr.all_tables)
       /\ \A k \in Range(retr.all_tables) :
              \A x \in (retr.entry \cup retr.related) \ Range(retr.all_tables) :
                  HopsFromEntry(retr.graph, retr.entry, k)
                      <= HopsFromEntry(retr.graph, retr.entry, x)

\* C8: every table of the returned subgraph is an entry table or lies within
\* max_hop_distance foreign-key hops (either direction) of an entry table.
C8_HopBound ==
    retr.phase = "done" =>
        \A i \in DOMAIN retr.subgraph.tables :
            \/ retr.subgraph.tables[i] \in retr.entry
            \/ \E e \in retr.entry :
                   PathWithin(retr.graph, e, retr.subgraph.tables[i], retr.max_hop_distance)

\* a table exactly max_hop_distance hops away was returned while a table
\* joined to the entry tables only by a longer chain was not reached
C8_ReachedAtBound ==
    /\ retr.phase = "done"
    /\ retr.max_hop_distance >= 1
    /\ \E i \in DOMAIN retr.subgraph.tables :
           /\ retr.subgraph.tables[i] \notin retr.entry
           /\ HopsFromEntry(retr.graph, retr.entry, retr.subgraph.tables[i])
                  = retr.max_hop_distance
    /\ \E x \in Tables :
           /\ \E e \in retr.entry : PathWithin(retr.graph, e, x, Cardinality(Tables))
           /\ ~\E e \in retr.entry : PathWithin(retr.graph, e, x, retr.max_hop_distance)
           /\ x \notin retr.related
           /\ x \notin Range(retr.subgraph.tables)

\* C9: the returned subgraph holds at most max_tables tables, also when the
\* entry tables alone are more than max_tables.
C9_AtMostMaxTables ==
    retr.phase = "done" => Len(retr.subgraph.tables) <= retr.max_tables

\* more entry tables than max_tables, and max_tables tables returned
C9_EntriesAloneExceed ==
    /\ retr.phase = "done"
    /\ Cardinality(retr.entry) > retr.max_tables
    /\ Len(retr.subgraph.tables) = retr.max_tables

\* C13: retrieve_subgraph never raises because of a failing graph query: a
\* failure of the related-tables traversal, of the relationships query or of
\* one table's detail query yields an empty result for that sub-query only
\* (no related tables / no relationships / that table omitted), and the
\* results of the other sub-queries are still returned.
C13_FailuresStayLocal ==
    (retr.phase = "done" /\ EntryTables(retr.bundle) # {}) =>
        LET f == retr.failed
            all == Range(retr.all_tables)
        IN  /\ retr.related = IF f.traversal THEN {}
                               ELSE RelatedTables(retr.graph, retr.entry, retr.max_hop_distance)
            /\ all \subseteq retr.entry \cup retr.related
            /\ Cardinality(all) = IF Cardinality(retr.entry \cup retr.related) < retr.max_tables
                                  THEN Cardinality(retr.entry \cup retr.related)
                                  ELSE retr.max_tables
            /\ Range(retr.subgraph.tables) = all \ f.details
            /\ retr.subgraph.relationships =
                   IF f.relationships THEN {}
                   ELSE {e \in retr.graph : e[1] \in all /\ e[2] \in all}

\* the traversal and one table's detail query failed, and the relationships
\* and the other table were still returned
C13_TwoFailedOthersReturned ==
    /\ retr.phase = "done"
    /\ retr.failed.traversal
    /\ retr.failed.details # {}
    /\ retr.subgraph.tables # << >>
    /\ retr.subgraph.relationships # {}

\* C25: the entry tables of retrieve_subgraph are the union of matched table
\* names and the related tables of matched concepts; only when that union is
\* empty are the owning tables of matched columns and matched values used
\* instead; and when that is empty too, retrieve_subgraph returns the empty
\* subgraph without issuing any graph query.
C25_EntryTableDerivation ==
    retr.phase = "done" =>
        LET b == retr.bundle
            direct == b.tables \cup b.concepts
            owners == b.columns \cup b.values
        IN  /\ direct # {} => retr.entry = direct /\ retr.queries # << >>
            /\ (direct = {} /\ owners # {}) => retr.entry = owners /\ retr.queries # << >>
            /\ (direct = {} /\ owners = {}) =>
                   /\ retr.subgraph.tables = << >>
                   /\ retr.subgraph.relationships = {}
                   /\ retr.subgraph.total_tables = 0
                   /\ retr.queries = << >>

\* no table and no concept matched, a column of one table and a value of
\* another did: the traversal started from those two tables and both were
\* returned
C25_InferredFromOwners ==
    /\ retr.phase = "done"
    /\ retr.bundle.tables = {} /\ retr.bundle.concepts = {}
    /\ retr.bundle.columns # {} /\ retr.bundle.values # {}
    /\ retr.bundle.columns # retr.bundle.values
    /\ retr.entry = retr.bundle.columns \cup retr.bundle.values
    /\ Len(retr.subgraph.tables) = 2

\* C27: for every relationship in the subgraph returned by retrieve_subgraph,
\* both its from_table and its to_table are tables present in that
\* subgraph's tables list, also when the detail query of some table failed
\* or returned no row.
C27_RelationshipEndsInTables ==
    retr.phase = "done" =>
        \A e \in retr.subgraph.relationships :
            /\ e[1] \in Range(retr.subgraph.tables)
            /\ e[2] \in Range(retr.subgraph.tables)

\* C28: the entry_tables recorded in the returned subgraph's metadata equal
\* the entry tables actually used to start the traversal, including the case
\* where they were inferred from matched columns or values because no table
\* or concept matched.
C28_MetadataEntryTables ==
    retr.phase = "done" => retr.subgraph.entry_tables = retr.entry

----------------------------------------------------------------------------
(* SchemaPruner.prune_schema: SpecPrune.  schema_pruner.py 38-135.          *)

\* the column names a table may have
ColumnNames == {"id", "city"}
\* the tables a subgraph handed to the pruner may hold
PrunedTableNames == {"users", "orders"}

\* the column lists _get_table_info returns for a table of a relational
\* schema: one column at least, each with its name and its primary_key flag
ColumnLists ==
    UNION {{[i \in DOMAIN o |-> [name |-> o[i], primary_key |-> pk[o[i]]]] :
               pk \in [ColumnNames -> BOOLEAN]}
           : o \in UNION {SetOrders(S) : S \in (SUBSET ColumnNames) \ {{}}}}

\* the table lists of a subgraph: distinct names, each with a column list
TableLists ==
    UNION {{[i \in DOMAIN o |-> [name |-> o[i], columns |-> cols[o[i]]]] :
               cols \in [PrunedTableNames -> ColumnLists]}
           : o \in UNION {SetOrders(S) : S \in SUBSET PrunedTableNames}}

\* schema_pruner.py 113-135
PruneColumn(column, is_highlighted) ==
    [name |-> column.name, primary_key |-> column.primary_key,
     highlighted |-> is_highlighted]

\* schema_pruner.py 91-92: f"{table}.{column}" in highlighted_columns
IsHighlighted(table, column, highlighted) == <<table.name, column.name>> \in highlighted

\* mutant of PruneTable: every column is kept, highlighting enabled or not
PruneTableKeepAll(table, highlighted, highlight_relevant_columns) ==
    [name |-> table.name,
     columns |-> [i \in DOMAIN table.columns |->
                     PruneColumn(table.columns[i],
                                 IsHighlighted(table, table.columns[i], highlighted))]]

\* schema_pruner.py 69-111
PruneTable(table, highlighted, highlight_relevant_columns) ==
    LET keep(c) == IF highlight_relevant_columns
                   THEN IsHighlighted(table, c, highlighted) \/ c.primary_key
                   ELSE TRUE
        kept == SelectSeq(table.columns, keep)
        first == [i \in DOMAIN kept |->
                      PruneColumn(kept[i], IsHighlighted(table, kept[i], highlighted))]
        keys == SelectSeq(table.columns, LAMBDA c : c.primary_key)
        fallback == [i \in DOMAIN keys |-> PruneColumn(keys[i], FALSE)]
    IN  [name |-> table.name,
         columns |-> IF first = << >> THEN fallback ELSE first]

\* schema_pruner.py 38-67
PruneSchema(subgraph, highlight_relevant_columns) ==
    [tables |-> [i \in DOMAIN subgraph.tables |->
                     PruneTable(subgraph.tables[i], subgraph.highlighted_columns,
                                highlight_relevant_columns)],
     relationships |-> subgraph.relationships]

NoSchema == [tables |-> << >>, relationships |-> {}]

InitPrune ==
    /\ cache = << >>
    /\ max_size \in {1}
    /\ ttl \in {0}
    /\ now = 0
    /\ lastOp = [op |-> "init"]
    /\ inserted = << >>
    /\ onlySets = TRUE
    /\ threads = IdleThreads
    /\ calls = IdleCalls
    /\ retr = IdleRetr
    /\ LaterIdle
    /\ \E ts \in TableLists, hl \in SUBSET (PrunedTableNames \X ColumnNames),
          flag \in BOOLEAN :
           prune = [phase |-> "input",
                    subgraph |-> [tables |-> ts, highlighted_columns |-> hl,
                                  relationships |-> {e \in EdgeChoices :
                                      \A x \in {e[1], e[2]} :
                                          \E i \in DOMAIN ts : ts[i].name = x}],
                    highlight_relevant_columns |-> flag,
                    pruned |-> NoSchema]

\* one call of prune_schema(subgraph)
Prune ==
    /\ prune.phase = "input"
    /\ prune' = [prune EXCEPT !.phase = "done",
                     !.pruned = PruneSchema(prune.subgraph, prune.highlight_relevant_columns)]
    /\ UNCHANGED <<cache, max_size, ttl, now, lastOp, inserted, onlySets, threads, calls, retr, match, req, prompt, ask, extr, high, scan, gen>>

NextPrune == Prune

SpecPrune == InitPrune /\ [][NextPrune]_vars

\* C10: every table in the result of prune_schema has a non-empty columns
\* list, whatever the subgraph (also for a table without highlighted column
\* and for a table without primary-key column).
C10_ColumnsNonEmpty ==
    prune.phase = "done" =>
        \A i \in DOMAIN prune.pruned.tables : prune.pruned.tables[i].columns # << >>

\* the place of the column called name in a column list
ColumnIndex(columns, name) == CHOOSE i \in DOMAIN columns : columns[i].name = name

\* the pruned table kept of the subgraph's table, under the subgraph's
\* highlighted list hl
KeptOf(table, kept, hl, highlight_relevant_columns) ==
    /\ kept.name = table.name
    /\ \A j \in DOMAIN kept.columns :
           /\ \E i \in DOMAIN table.columns :
                  /\ table.columns[i].name = kept.columns[j].name
                  /\ table.columns[i].primary_key = kept.columns[j].primary_key
           /\ kept.columns[j].highlighted <=> <<table.name, kept.columns[j].name>> \in hl
    /\ \A j, k \in DOMAIN kept.columns :
           j < k => ColumnIndex(table.columns, kept.columns[j].name)
                        < ColumnIndex(table.columns, kept.columns[k].name)
    /\ {kept.columns[j].name : j \in DOMAIN kept.columns} =
           {table.columns[i].name : i \in
               {i \in DOMAIN table.columns :
                   highlight_relevant_columns =>
                       (<<table.name, table.columns[i].name>> \in hl
                            \/ table.columns[i].primary_key)}}

\* the result of prune_schema against its input
PrunedOf(p) ==
    p.phase = "done" =>
        /\ Len(p.pruned.tables) = Len(p.subgraph.tables)
        /\ \A i \in DOMAIN p.subgraph.tables :
               KeptOf(p.subgraph.tables[i], p.pruned.tables[i],
                      p.subgraph.highlighted_columns, p.highlight_relevant_columns)
        /\ p.pruned.relationships = p.subgraph.relationships

\* C26: prune_schema keeps the subgraph's tables in the same order and, per
\* table, keeps a subset of that table's columns in their original order:
\* with highlighting enabled exactly the columns that are highlighted or
\* primary keys, with highlighting disabled all columns; a kept column is
\* flagged highlighted exactly when (table, column) is in the subgraph's
\* highlighted list; relationships are passed through unchanged and the
\* input subgraph is not modified.
C26_PruneKeepsPolicy ==
    [][prune'.subgraph = prune.subgraph /\ PrunedOf(prune')]_vars

\* highlighting enabled, two tables and their relationship: of one table's
\* two columns only the second, highlighted and no primary key, was kept;
\* the other table kept a primary key that is not highlighted
C26_DroppedAndKept ==
    /\ prune.phase = "done"
    /\ prune.highlight_relevant_columns
    /\ Len(prune.pruned.tables) = 2
    /\ prune.pruned.relationships # {}
    /\ Len(prune.subgraph.tables[1].columns) = 2
    /\ Len(prune.pruned.tables[1].columns) = 1
    /\ prune.pruned.tables[1].columns[1].name = prune.subgraph.tables[1].columns[2].name
    /\ prune.pruned.tables[1].columns[1].highlighted
    /\ ~prune.pruned.tables[1].columns[1].primary_key
    /\ \E j \in DOMAIN prune.pruned.tables[2].columns :
           /\ prune.pruned.tables[2].columns[j].primary_key
           /\ ~prune.pruned.tables[2].columns[j].highlighted

----------------------------------------------------------------------------
(* EntityMatcher.match_entities: SpecMatch.  entity_matcher.py 43-322.     *)
(* Scores and similarity ratios are in hundredths (1.0 is 100).  The graph *)
(* store holds the Table nodes of MatchTableNames, the Column nodes of     *)
(* MatchColumns and the Value nodes of MatchValues; match.store tells how  *)
(* each keyword relates to each node.                                      *)

MatchTableNames == {"users", "orders"}
\* <<table_name, name>> of the Column nodes
MatchColumns == {<<"users", "city">>}
\* <<table_name, column_name, value>> of the Value nodes
MatchValues == {<<"users", "city", "paris">>}

\* entity_matcher.py 123, 181, 250: "1.0 as score"
ExactScore == 100
\* entity_matcher.py 27: fuzzy_threshold
FuzzyThreshold == 85
\* entity_matcher.py 201: fuzzy column matching only for len(keyword) >= 3
MinFuzzyLen == 3

\* how a keyword relates to a node: whether the node's name or comment
\* contains it, and the SequenceMatcher ratios of keyword to name and of
\* keyword to comment
TextRelations ==
    {[contains |-> TRUE, name_similarity |-> 100, comment_similarity |-> 0],
     [contains |-> FALSE, name_similarity |-> 70, comment_similarity |-> 90],
     [contains |-> FALSE, name_similarity |-> 70, comment_similarity |-> 60]}

\* entity_matcher.py 147, 218: max(name_similarity, comment_similarity)
MaxSimilarity(r) ==
    IF r.name_similarity >= r.comment_similarity THEN r.name_similarity
    ELSE r.comment_similarity

\* the keyword lists extract() hands over: two keywords, each of two kinds
KeywordLists ==
    {<<k1, k2>> : k1 \in {[text |-> "7", len |-> 1, type |-> "NUMBER"],
                          [text |-> "vip", len |-> 3, type |-> "KEYWORD"]},
                  k2 \in {[text |-> "city", len |-> 4, type |-> "KEYWORD"],
                          [text |-> "paris", len |-> 5, type |-> "LOCATION"]}}

\* entity_matcher.py 92
ValueTypes == {"NUMBER", "TIME", "LOCATION", "ENTITY_LOC"}

\* entity_matcher.py 108-163: the exact rows in the order the store returns
\* them, else the nodes at or above the threshold
MatchTablesOf(rel, order) ==
    LET exact == SelectSeq(order, LAMBDA t : rel[t].contains)
        fuzzy == SelectSeq(order, LAMBDA t : MaxSimilarity(rel[t]) >= FuzzyThreshold)
    IN  IF exact # << >>
        THEN [i \in DOMAIN exact |->
                 [name |-> exact[i], score |-> ExactScore, match_type |-> "exact"]]
        ELSE [i \in DOMAIN fuzzy |->
                 [name |-> fuzzy[i], score |-> MaxSimilarity(rel[fuzzy[i]]), match_type |-> "fuzzy"]]

\* mutant of MatchColumnsOf: the fuzzy pass runs whatever the length of the
\* keyword
MatchColumnsOfAnyLength(kw, rel, order) ==
    LET exact == SelectSeq(order, LAMBDA c : rel[c].contains)
        fuzzy == SelectSeq(order, LAMBDA c : MaxSimilarity(rel[c]) >= FuzzyThreshold)
    IN  IF exact # << >>
        THEN [i \in DOMAIN exact |->
                 [table_name |-> exact[i][1], name |-> exact[i][2],
                  score |-> ExactScore, match_type |-> "exact"]]
        ELSE [i \in DOMAIN fuzzy |->
                 [table_name |-> fuzzy[i][1], name |-> fuzzy[i][2],
                  score |-> MaxSimilarity(rel[fuzzy[i]]), match_type |-> "fuzzy"]]

\* entity_matcher.py 165-234
MatchColumnsOf(kw, rel, order) ==
    LET exact == SelectSeq(order, LAMBDA c : rel[c].contains)
        fuzzy == SelectSeq(order, LAMBDA c : MaxSimilarity(rel[c]) >= FuzzyThreshold)
    IN  IF exact # << >>
        THEN [i \in DOMAIN exact |->
                 [table_name |-> exact[i][1], name |-> exact[i][2],
                  score |-> ExactScore, match_type |-> "exact"]]
        ELSE IF kw.len >= MinFuzzyLen
        THEN [i \in DOMAIN fuzzy |->
                 [table_name |-> fuzzy[i][1], name |-> fuzzy[i][2],
                  score |-> MaxSimilarity(rel[fuzzy[i]]), match_type |-> "fuzzy"]]
        ELSE << >>

\* entity_matcher.py 236-265: the Value nodes equal to the keyword
MatchValuesOf(equal, order) ==
    LET rows == SelectSeq(order, LAMBDA v : v \in equal)
    IN  [i \in DOMAIN rows |->
            [table_name |-> rows[i][1], column_name |-> rows[i][2], value |-> rows[i][3],
             score |-> ExactScore, match_type |-> "exact"]]

\* entity_matcher.py 305-315: the f-string key of a match, as the tuple of
\* its parts
IdentityKey(m) ==
    IF "table_name" \in DOMAIN m /\ "name" \in DOMAIN m THEN <<m.table_name, m.name>>
    ELSE IF "name" \in DOMAIN m THEN <<m.name>>
    ELSE <<m.table_name, m.column_name, m.value>>

\* entity_matcher.py 300-319: the first match of every key, in list order
RECURSIVE UniqueMatches(_, _)
UniqueMatches(matches, seen) ==
    IF matches = << >> THEN << >>
    ELSE LET k == IdentityKey(Head(matches))
         IN  IF k \in seen THEN UniqueMatches(Tail(matches), seen)
             ELSE <<Head(matches)>> \o UniqueMatches(Tail(matches), seen \cup {k})

\* m put behind the entries of s that score at least as much
InsertByScore(s, m) ==
    LET before == {i \in DOMAIN s : \A j \in 1..i : s[j].score >= m.score}
        n == Cardinality(before)
    IN  SubSeq(s, 1, n) \o <<m>> \o SubSeq(s, n + 1, Len(s))

\* sorted(..., key=score, reverse=True): descending and stable
RECURSIVE SortedByScore(_)
SortedByScore(s) ==
    IF s = << >> THEN << >>
    ELSE InsertByScore(SortedByScore(SubSeq(s, 1, Len(s) - 1)), s[Len(s)])

\* mutant of DeduplicateMatches: every match is kept
DeduplicateMatchesKeepAll(matches) == SortedByScore(matches)

\* entity_matcher.py 288-322
DeduplicateMatches(matches) == SortedByScore(UniqueMatches(matches, {}))

\* the probes match_entities runs, in the order it runs them
ProbesOf(keywords) ==
    [i \in 1..Len(keywords) |-> <<"tables", i>>]
        \o [i \in 1..Len(keywords) |-> <<"columns", i>>]
        \o SelectSeq([i \in 1..Len(keywords) |-> <<"values", i>>],
                     LAMBDA p : keywords[p[2]].type \in ValueTypes)

\* the concatenation of the lists of a sequence of lists
RECURSIVE Flatten(_)
Flatten(ss) == IF ss = << >> THEN << >> ELSE Head(ss) \o Flatten(Tail(ss))

\* no probe fails
NoProbe == <<"none", 0>>

NoBundle == [tables |-> << >>, columns |-> << >>, concepts |-> << >>, values |-> << >>]

\* no probe has returned
NoProbes == [tables |-> << >>, columns |-> << >>]

\* entity_matcher.py 43-106, with self.concept_extractor None
\* (text2sql.py 97).  failed is the probe whose execute_query raises
\* (database.py 337-339 re-raises), NoProbe if none does; torder[i] is the order in which the
\* store returns the Table nodes to the probe of keyword i; probes holds what
\* _match_tables and _match_columns returned for each keyword.
MatchEntitiesOn(keywords, store, failed, torder) ==
    LET idx == 1..Len(keywords)
        probes == [tables |-> [i \in idx |-> MatchTablesOf(store.tables[i], torder[i])],
                   columns |-> [i \in idx |->
                                   MatchColumnsOf(keywords[i], store.columns[i],
                                                  CHOOSE o \in SetOrders(MatchColumns) : TRUE)]]
        raw == [concepts |-> << >>,
                tables |-> Flatten(probes.tables),
                columns |-> Flatten(probes.columns),
                values |-> Flatten([i \in idx |->
                              IF keywords[i].type \in ValueTypes
                              THEN MatchValuesOf(store.values[i],
                                                 CHOOSE o \in SetOrders(MatchValues) : TRUE)
                              ELSE << >>])]
        raises == \E p \in Range(ProbesOf(keywords)) : p = failed
    IN  IF raises
        THEN [raised |-> TRUE, probes |-> NoProbes, raw |-> NoBundle, bundle |-> NoBundle]
        ELSE [raised |-> FALSE,
              probes |-> probes,
              raw |-> raw,
              bundle |-> [tables |-> DeduplicateMatches(raw.tables),
                          columns |-> DeduplicateMatches(raw.columns),
                          concepts |-> << >>,
                          values |-> DeduplicateMatches(raw.values)]]


MatchStores(keywords) ==
    [tables : [1..Len(keywords) -> [MatchTableNames -> TextRelations]],
     columns : [1..Len(keywords) -> [MatchColumns -> TextRelations]],
     values : [1..Len(keywords) -> SUBSET MatchValues]]

InitMatch ==
    /\ CoreIdle
    /\ LastIdle
    /\ req = Idle /\ prompt = Idle /\ ask = Idle /\ extr = Idle /\ high = Idle
    /\ \E keywords \in KeywordLists :
         \E store \in MatchStores(keywords) :
           match = [phase |-> "input", keywords |-> keywords, store |-> store,
                    failed |-> NoProbe, raised |-> FALSE,
                    probes |-> NoProbes, raw |-> NoBundle, bundle |-> NoBundle]

matchFrame == <<coreVars, req, prompt, ask, extr, high, scan, gen>>

\* one call of match_entities(query) in which no probe fails
MatchEntities ==
    /\ match.phase = "input"
    /\ \E torder \in [1..Len(match.keywords) -> SetOrders(MatchTableNames)] :
         LET r == MatchEntitiesOn(match.keywords, match.store, NoProbe, torder)
         IN  match' = [match EXCEPT !.phase = "done", !.raised = r.raised,
                           !.probes = r.probes, !.raw = r.raw, !.bundle = r.bundle]
    /\ UNCHANGED matchFrame

\* one call of match_entities(query) in which the graph store fails one probe
MatchEntitiesProbeFails ==
    /\ match.phase = "input"
    /\ \E failed \in {"tables", "columns", "values"} \X (1..Len(match.keywords)),
          torder \in [1..Len(match.keywords) -> SetOrders(MatchTableNames)] :
         LET r == MatchEntitiesOn(match.keywords, match.store, failed, torder)
         IN  match' = [match EXCEPT !.phase = "done", !.failed = failed,
                           !.raised = r.raised, !.probes = r.probes, !.raw = r.raw, !.bundle = r.bundle]
    /\ UNCHANGED matchFrame

NextMatch ==
    \/ MatchEntities
    \/ MatchEntitiesProbeFails

SpecMatch == InitMatch /\ [][NextMatch]_vars

----------------------------------------------------------------------------
(* Claims about match_entities under SpecMatch *)

MatchCategories == {"tables", "columns", "values"}

\* no two entries of ms share an identity key
NoSharedKey(ms) ==
    \A i, j \in DOMAIN ms : i # j => IdentityKey(ms[i]) # IdentityKey(ms[j])

\* the position at which key k is first seen in the list of raw matches
FirstSeenAt(raw, k) ==
    CHOOSE i \in DOMAIN raw :
        /\ IdentityKey(raw[i]) = k
        /\ \A j \in 1..(i - 1) : IdentityKey(raw[j]) # k

\* ms is non-increasing by score, entries of equal score in first-seen order
SortedFirstSeen(raw, ms) ==
    \A i, j \in DOMAIN ms :
        i < j => \/ ms[i].score > ms[j].score
                 \/ /\ ms[i].score = ms[j].score
                    /\ FirstSeenAt(raw, IdentityKey(ms[i])) < FirstSeenAt(raw, IdentityKey(ms[j]))

\* C11: in the bundle returned by match_entities, within each category
\* (tables by name, columns by table.column, values by table.column.value)
\* no two entries share an identity key, and each list is sorted
\* non-increasing by score with equal-score entries in first-seen order.
C11_DedupedAndSorted ==
    (match.phase = "done" /\ ~match.raised) =>
        \A cat \in MatchCategories :
            /\ NoSharedKey(match.bundle[cat])
            /\ SortedFirstSeen(match.raw[cat], match.bundle[cat])

\* a repeated table was dropped and two tables of equal score were returned
C11_DuplicateDroppedTieKept ==
    /\ match.phase = "done"
    /\ ~match.raised
    /\ Len(match.raw.tables) > Len(match.bundle.tables)
    /\ Len(match.bundle.tables) = 2
    /\ match.bundle.tables[1].score = match.bundle.tables[2].score

\* C12: match_entities never raises: if the catalog probe for one keyword
\* fails, that probe is skipped and the bundle is still returned with the
\* results of the probes of all other keywords.
C12_MatchNeverRaises ==
    match.phase = "done" => ~match.raised

\* C19: when several matches in one category share an identity key, the
\* entry kept in the final bundle is the one with the highest score among
\* them.
C19_KeepsHighestScore ==
    (match.phase = "done" /\ ~match.raised) =>
        \A cat \in MatchCategories :
            \A i \in DOMAIN match.bundle[cat], j \in DOMAIN match.raw[cat] :
                IdentityKey(match.raw[cat][j]) = IdentityKey(match.bundle[cat][i])
                    => match.bundle[cat][i].score >= match.raw[cat][j].score

\* what one probe returned, against how the keyword relates to the nodes:
\* rel[nodes[i]] is the relation of the keyword to the node of entry i
ExactOrFuzzy(result, rel, nodes) ==
    /\ \A i \in DOMAIN result :
           LET m == result[i]
           IN  \/ /\ m.match_type = "exact"
                  /\ m.score = ExactScore
                  /\ rel[nodes[i]].contains
               \/ /\ m.match_type = "fuzzy"
                  /\ m.score = MaxSimilarity(rel[nodes[i]])
                  /\ m.score >= rel[nodes[i]].name_similarity
                  /\ m.score >= rel[nodes[i]].comment_similarity
                  /\ m.score >= FuzzyThreshold
                  /\ \A n \in DOMAIN rel : ~rel[n].contains
    /\ \A i, j \in DOMAIN result : result[i].match_type = result[j].match_type

\* C24: for each keyword, the table probe and the column probe return fuzzy
\* matches only when the exact pass for that keyword returned nothing: every
\* exact entry has score 1.0, every fuzzy entry has score max(similarity to
\* name, similarity to comment) >= fuzzy_threshold, one probe never returns
\* a mix of exact and fuzzy entries, and a keyword shorter than 3 characters
\* never yields a fuzzy column match.
C24_FuzzyOnlyAfterEmptyExact ==
    (match.phase = "done" /\ ~match.raised) =>
        \A i \in DOMAIN match.keywords :
            /\ ExactOrFuzzy(match.probes.tables[i], match.store.tables[i],
                            [j \in DOMAIN match.probes.tables[i] |->
                                match.probes.tables[i][j].name])
            /\ ExactOrFuzzy(match.probes.columns[i], match.store.columns[i],
                            [j \in DOMAIN match.probes.columns[i] |->
                                <<match.probes.columns[i][j].table_name,
                                  match.probes.columns[i][j].name>>])
            /\ match.keywords[i].len < MinFuzzyLen =>
                   \A j \in DOMAIN match.probes.columns[i] :
                       match.probes.columns[i][j].match_type # "fuzzy"

\* one call in which the table probe of a keyword answered exact rows
\* although another table was near enough for a fuzzy match, the column
\* probe of a 3-character keyword answered a fuzzy match scored by the
\* comment, and the column probe of a 1-character keyword whose best ratio
\* is above the threshold answered nothing
C24_ExactFuzzyAndShort ==
    /\ match.phase = "done" /\ ~match.raised
    /\ \E i \in DOMAIN match.keywords :
           /\ match.probes.tables[i] # << >>
           /\ match.probes.tables[i][1].match_type = "exact"
           /\ \E t \in MatchTableNames :
                  /\ ~match.store.tables[i][t].contains
                  /\ MaxSimilarity(match.store.tables[i][t]) >= FuzzyThreshold
    /\ \E i \in DOMAIN match.keywords :
           /\ match.keywords[i].len >= MinFuzzyLen
           /\ match.probes.columns[i] # << >>
           /\ match.probes.columns[i][1].match_type = "fuzzy"
           /\ match.probes.columns[i][1].score = 90
    /\ \E i \in DOMAIN match.keywords :
           /\ match.keywords[i].len < MinFuzzyLen
           /\ match.probes.columns[i] = << >>
           /\ \E c \in MatchColumns :
                  MaxSimilarity(match.store.columns[i][c]) >= FuzzyThreshold

----------------------------------------------------------------------------
(* GraphEnhancedText2SQL.process_question against a graph store that may   *)
(* fail: SpecRequest.  text2sql.py 198-281 with use_cache False, the       *)
(* retriever of subgraph_retriever.py 38-278.  req.queries lists the graph *)
(* queries of the request in the order issued, each with whether it        *)
(* raised; the probes of match_entities count as one query.                *)

\* str(e) of an exception of the graph store
StoreError == "graph store error"
\* text2sql.py 241: the message of the exception raised for an empty subgraph
NoTablesError == "no relevant table found, cannot generate SQL"
\* generation_result["error"] of a failed generation
LlmError == "generation failed"

\* the stages of text2sql.py 226-253
RequestStages == <<"match", "retrieve", "prune", "context", "generate">>

\* text2sql.py 234-279 from the retrieved subgraph on: the stages run after
\* retrieval and the result handed to the caller
FinishRequest(subgraph, llm_ok) ==
    IF subgraph.tables = << >>
    THEN [stages |-> SubSeq(RequestStages, 1, 2),
          result |-> [sql |-> NoText, success |-> FALSE, error |-> NoTablesError]]
    ELSE IF llm_ok
    THEN [stages |-> RequestStages,
          result |-> [sql |-> "SELECT 1", success |-> TRUE, error |-> NoText]]
    ELSE [stages |-> RequestStages,
          result |-> [sql |-> NoText, success |-> FALSE, error |-> LlmError]]

\* the queries of _build_subgraph: one detail query per table, then the
\* relationships query (subgraph_retriever.py 189-196)
BuildQueries(all, missing, rel_fails) ==
    [i \in DOMAIN all |-> [query |-> <<"detail", all[i]>>, failed |-> all[i] \in missing]]
        \o <<[query |-> <<"relationships">>, failed |-> rel_fails]>>

InitRequest ==
    /\ CoreIdle
    /\ LastIdle
    /\ match = Idle /\ prompt = Idle /\ ask = Idle /\ extr = Idle /\ high = Idle
    /\ \E g \in SUBSET EdgeChoices, b \in Bundles :
           req = [phase |-> "input", graph |-> g, bundle |-> b,
                  max_hop_distance |-> MaxHop, max_tables |-> MaxTablesCfg,
                  queries |-> << >>, subgraph |-> EmptySubgraph, stages |-> << >>,
                  result |-> [sql |-> NoText, success |-> FALSE, error |-> NoText]]

reqFrame == <<coreVars, match, prompt, ask, extr, high, scan, gen>>

\* process_question when a probe of match_entities raises: the exception
\* reaches the except clause of text2sql.py 277-279
RequestMatchRaises ==
    /\ req.phase = "input"
    /\ req' = [req EXCEPT !.phase = "done",
                   !.queries = <<[query |-> <<"match">>, failed |-> TRUE]>>,
                   !.stages = SubSeq(RequestStages, 1, 1),
                   !.result = [sql |-> NoText, success |-> FALSE, error |-> StoreError]]
    /\ UNCHANGED reqFrame

\* process_question when matching returns a bundle without entry table:
\* retrieve_subgraph issues no query (subgraph_retriever.py 56-62)
RequestNoEntry ==
    /\ req.phase = "input"
    /\ EntryTables(req.bundle) = {}
    /\ \E llm_ok \in BOOLEAN :
         LET f == FinishRequest(EmptySubgraph, llm_ok)
         IN  req' = [req EXCEPT !.phase = "done",
                         !.queries = <<[query |-> <<"match">>, failed |-> FALSE]>>,
                         !.stages = f.stages, !.result = f.result]
    /\ UNCHANGED reqFrame

\* process_question when matching returns a bundle with entry tables: the
\* traversal, the detail queries and the relationships query are issued,
\* and each may raise
RequestRetrieves ==
    /\ req.phase = "input"
    /\ EntryTables(req.bundle) # {}
    /\ \E trav_fails \in BOOLEAN, rel_fails \in BOOLEAN, llm_ok \in BOOLEAN :
         LET entry == EntryTables(req.bundle)
             related == FindRelatedTables(req.graph, entry, req.max_hop_distance, trav_fails)
         IN  \E all \in AllTablesChoices(entry, related, req.max_tables) :
               \E missing \in SUBSET Range(all) :
                 LET subgraph == BuildSubgraph(req.graph, req.bundle, all, missing, rel_fails)
                     f == FinishRequest(subgraph, llm_ok)
                 IN  req' = [req EXCEPT !.phase = "done",
                                 !.queries = <<[query |-> <<"match">>, failed |-> FALSE],
                                               [query |-> <<"traversal">>, failed |-> trav_fails]>>
                                             \o BuildQueries(all, missing, rel_fails),
                                 !.subgraph = subgraph,
                                 !.stages = f.stages, !.result = f.result]
    /\ UNCHANGED reqFrame

NextRequest ==
    \/ RequestMatchRaises
    \/ RequestNoEntry
    \/ RequestRetrieves

SpecRequest == InitRequest /\ [][NextRequest]_vars

----------------------------------------------------------------------------
(* Claims about process_question under SpecRequest *)

\* the graph store became unreachable at some query of the request and
\* stayed unreachable
StoreWentDown ==
    \E k \in DOMAIN req.queries :
        \A i \in DOMAIN req.queries : req.queries[i].failed <=> i >= k

\* C14: if the graph store is unreachable at any point during a request
\* (including becoming unreachable after entity matching has succeeded), the
\* request fails as a whole: process_question never builds a prompt context
\* or calls the SQL generator from a partially fetched subgraph.
C14_NoContextFromPartialSubgraph ==
    (req.phase = "done" /\ StoreWentDown) =>
        /\ ~req.result.success
        /\ \A i \in DOMAIN req.stages : req.stages[i] \notin {"context", "generate"}

\* C15: when matching and retrieval succeed but the subgraph has no tables,
\* process_question returns success == false with a specific reason and
\* never calls the SQL generator; and this outcome is distinguishable by the
\* caller from an upstream system failure (graph store or LLM error), which
\* is reported with a distinct error kind.
C15_NoTablesDistinctFromFailure ==
    req.phase = "done" =>
        /\ (req.subgraph.tables = << >> /\ ~req.queries[1].failed) =>
               /\ ~req.result.success
               /\ req.result.error = NoTablesError
               /\ \A i \in DOMAIN req.stages : req.stages[i] # "generate"
        /\ (\E i \in DOMAIN req.queries : req.queries[i].failed) =>
               (~req.result.success => req.result.error # NoTablesError)

----------------------------------------------------------------------------
(* SchemaPruner.create_prompt_context: SpecPrompt.  schema_pruner.py       *)
(* 137-321, utils.py 123-181.  The context string is modelled as the list  *)
(* of its lines (the string split at its newlines), a line as the tuple of *)
(* its parts; the empty line is << >>.                                     *)

\* the pruned schemas handed over: tables of distinct names with one column
\* each, and the relationships as a list
PromptTables ==
    UNION {{[i \in DOMAIN o |-> [name |-> o[i],
                                 columns |-> <<[name |-> "id", primary_key |-> TRUE,
                                                highlighted |-> hl[o[i]]]>>]] :
               hl \in [PrunedTableNames -> BOOLEAN]}
           : o \in UNION {SetOrders(S) : S \in SUBSET PrunedTableNames}}

PromptRelationships ==
    {<< >>, <<[from_table |-> "orders", to_table |-> "users"]>>,
     <<[from_table |-> "orders", to_table |-> "users"],
       [from_table |-> "users", to_table |-> "orders"]>>}

\* the header lines of the five sections
SummaryHeader == <<"##", "schema summary">>
DdlHeader == <<"##", "table structure">>
FieldsHeader == <<"##", "important fields">>
JoinHeader == <<"##", "JOIN hints">>
QuestionHeader == <<"##", "user question">>

\* schema_pruner.py 149-185
GenerateSchemaSummary(schema) ==
    <<SummaryHeader, << >>, <<"###", "tables">>>>
        \o [i \in DOMAIN schema.tables |-> <<"- table", schema.tables[i].name>>]
        \o << << >> >>
        \o (IF schema.relationships # << >>
            THEN << <<"###", "relationships">> >>
                     \o [i \in DOMAIN schema.relationships |->
                            <<"- relationship", schema.relationships[i].from_table,
                              schema.relationships[i].to_table>>]
                     \o << << >> >>
            ELSE << >>)

\* utils.py 123-181 (the pruner's tables carry no foreign_keys)
FormatSchemaForPrompt(schema) ==
    Flatten([i \in DOMAIN schema.tables |->
                <<<<"-- Table", schema.tables[i].name>>,
                  <<"CREATE TABLE", schema.tables[i].name>>>>
                    \o [j \in DOMAIN schema.tables[i].columns |->
                           <<"column", schema.tables[i].columns[j].name>>]
                    \o <<<<");">>, << >>, << >>>>])

\* schema_pruner.py 187-220
GenerateColumnDescriptions(schema) ==
    <<FieldsHeader, << >>>>
        \o Flatten([i \in DOMAIN schema.tables |->
               LET cols == SelectSeq(schema.tables[i].columns, LAMBDA c : c.highlighted)
               IN  IF cols = << >> THEN << >>
                   ELSE << <<"###", schema.tables[i].name>> >>
                            \o [j \in DOMAIN cols |-> <<"- column", cols[j].name>>]
                            \o << << >> >>])

\* schema_pruner.py 253-277
GenerateJoinHints(schema) ==
    [i \in DOMAIN schema.relationships |->
        <<"- To join", schema.relationships[i].from_table, schema.relationships[i].to_table>>]

\* schema_pruner.py 297-302
DdlSection(schema) ==
    <<DdlHeader, <<"sql fence opens">>>> \o FormatSchemaForPrompt(schema) \o <<<<"sql fence closes">>, << >>>>

\* schema_pruner.py 304-306
FieldsSection(schema, include_comments) ==
    IF include_comments THEN GenerateColumnDescriptions(schema) ELSE << >>

\* schema_pruner.py 308-314
JoinSection(schema) ==
    IF GenerateJoinHints(schema) # << >>
    THEN <<JoinHeader>> \o GenerateJoinHints(schema) \o << << >> >>
    ELSE << >>

\* schema_pruner.py 316-319
QuestionSection(user_question) == <<QuestionHeader, <<"text", user_question>>, << >>>>

\* mutant of CreatePromptContext: the join hints come before the field
\* descriptions
CreatePromptContextJoinEarly(schema, user_question, include_comments) ==
    GenerateSchemaSummary(schema) \o DdlSection(schema) \o JoinSection(schema)
        \o FieldsSection(schema, include_comments) \o QuestionSection(user_question)

\* schema_pruner.py 279-321
CreatePromptContext(schema, user_question, include_comments) ==
    GenerateSchemaSummary(schema) \o DdlSection(schema)
        \o FieldsSection(schema, include_comments) \o JoinSection(schema)
        \o QuestionSection(user_question)

InitPrompt ==
    /\ CoreIdle
    /\ LastIdle
    /\ match = Idle /\ req = Idle /\ ask = Idle /\ extr = Idle /\ high = Idle
    /\ \E ts \in PromptTables, rs \in PromptRelationships,
          q \in Questions, flag \in BOOLEAN :
           prompt = [phase |-> "input",
                     pruned_schema |-> [tables |-> ts, relationships |-> rs],
                     user_question |-> q, include_comments |-> flag,
                     context |-> << >>]

\* one call of create_prompt_context(pruned_schema, user_question)
CreateContext ==
    /\ prompt.phase = "input"
    /\ prompt' = [prompt EXCEPT !.phase = "done",
                      !.context = CreatePromptContext(prompt.pruned_schema,
                                      prompt.user_question, prompt.include_comments)]
    /\ UNCHANGED <<coreVars, match, req, ask, extr, high, scan, gen>>

NextPrompt == CreateContext

SpecPrompt == InitPrompt /\ [][NextPrompt]_vars

\* the section headers in the order of the contract
SectionOrder == <<SummaryHeader, DdlHeader, FieldsHeader, JoinHeader, QuestionHeader>>

\* the lines of the context that are the header h
HeaderLines(h) == {i \in DOMAIN prompt.context : prompt.context[i] = h}

\* C16: create_prompt_context emits its sections in the fixed order schema
\* summary, DDL, important-field descriptions, join hints, original
\* question: whenever a section is present it appears after every earlier
\* section of that order, and the question section is always last.
C16_SectionsInOrder ==
    prompt.phase = "done" =>
        LET n == Len(prompt.context)
        IN  /\ \A a, b \in DOMAIN SectionOrder :
                   a < b => \A i \in HeaderLines(SectionOrder[a]),
                               j \in HeaderLines(SectionOrder[b]) : i < j
            /\ \A a \in DOMAIN SectionOrder :
                   Cardinality(HeaderLines(SectionOrder[a])) <= 1
            /\ HeaderLines(QuestionHeader) = {n - 2}
            /\ prompt.context[n - 1] = <<"text", prompt.user_question>>
            /\ prompt.context[n] = << >>

\* a context that holds all five sections
C16_AllSectionsPresent ==
    /\ prompt.phase = "done"
    /\ \A a \in DOMAIN SectionOrder : HeaderLines(SectionOrder[a]) # {}

----------------------------------------------------------------------------
(* The cache key of a question: SpecKey.  text2sql.py 211-220, 266-272,    *)
(* utils.py 27-36, 110-120.  A question text is the list of its            *)
(* characters; TAB stands for the tab character.                           *)

Whitespace == {" ", "TAB"}

\* the question texts asked
QuestionTexts ==
    {<<"H", "i">>, <<"h", "i">>, <<" ", "h", "i">>, <<"h", "i", "!">>,
     <<"h", " ", "i">>, <<"h", " ", " ", "i">>, <<"h", "TAB", "i">>}

\* str.lower()
Lower(text) == [i \in DOMAIN text |-> IF text[i] = "H" THEN "h" ELSE text[i]]

\* the text without its leading whitespace
RECURSIVE StripLeft(_)
StripLeft(text) ==
    IF text # << >> /\ Head(text) \in Whitespace THEN StripLeft(Tail(text)) ELSE text

\* the text without its trailing whitespace
RECURSIVE StripRight(_)
StripRight(text) ==
    IF text # << >> /\ text[Len(text)] \in Whitespace
    THEN StripRight(SubSeq(text, 1, Len(text) - 1))
    ELSE text

\* str.strip()
Strip(text) == StripRight(StripLeft(text))

\* re.sub(r"\s+", " ", text)
RECURSIVE CollapseWhitespace(_)
CollapseWhitespace(text) ==
    IF text = << >> THEN << >>
    ELSE IF Head(text) \in Whitespace
    THEN <<" ">> \o CollapseWhitespace(StripLeft(text))
    ELSE <<Head(text)>> \o CollapseWhitespace(Tail(text))

\* utils.py 27-36
NormalizeText(text) == CollapseWhitespace(Strip(Lower(text)))

\* text2sql.py 214, 271: cache_key = hash_text(question)
CacheKey(question) == HashText(question)

InitKey ==
    /\ CoreIdle
    /\ LastIdle
    /\ match = Idle /\ req = Idle /\ prompt = Idle /\ extr = Idle /\ high = Idle
    /\ ask = [cache |-> << >>, calls |-> << >>]

\* one call of process_question(question) with use_cache True, at time 0 on
\* a cache of ttl 0 and max_size 2: no entry expires
AskQuestion(question, outcome) ==
    LET r == ProcessQuestionOn(ask.cache, question, outcome,
                               IF outcome = "ok" THEN "SELECT 1" ELSE NoText,
                               TRUE, 0, 0, 2)
        call == [question |-> question, key |-> CacheKey(question), hit |-> r.hit,
                 success |-> r.result.success]
    IN  /\ ask' = [cache |-> r.cache,
                   calls |-> IF ask.calls = << >> THEN <<call>> ELSE <<call, ask.calls[1]>>]
        /\ UNCHANGED <<coreVars, match, req, prompt, extr, high, scan, gen>>

NextKey ==
    \E question \in QuestionTexts, outcome \in {"ok", "generation_failed"} :
        AskQuestion(question, outcome)

SpecKey == InitKey /\ [][NextKey]_vars

\* C17: the cache key of a question is the content hash of its normalized
\* text, so two questions that are equal after normalization (lower-casing,
\* trimming, collapsing whitespace runs) map to the same cache key and the
\* second hits the entry stored by the first, while questions with different
\* normalized text get different keys.
C17_KeyOfNormalizedText ==
    Len(ask.calls) = 2 =>
        LET first == ask.calls[2]
            second == ask.calls[1]
        IN  IF NormalizeText(first.question) = NormalizeText(second.question)
            THEN /\ first.key = second.key
                 /\ (first.success => second.hit)
            ELSE first.key # second.key

----------------------------------------------------------------------------
(* KeywordExtractor.extract: SpecExtract.  keyword_extractor.py 29-297.    *)
(* Scores are in hundredths.  What the regular expressions find in a text  *)
(* and what the loaded Spacy pipeline finds in it are functions of the     *)
(* text: extr.found[text] and extr.nlp[text] list the candidates appended  *)
(* to `keywords` in the order the code appends them.                       *)

ExtractTexts == {"orders from paris", "all orders"}

\* the candidates of _extract_with_regex (keyword_extractor.py 233-283)
RegexCandidates ==
    {[text |-> "paris", type |-> "LOCATION", score |-> 85],
     [text |-> "paris", type |-> "KEYWORD", score |-> 60],
     [text |-> "orders", type |-> "KEYWORD", score |-> 60]}

\* the candidates of _extract_with_spacy (keyword_extractor.py 186-217)
SpacyCandidates ==
    {[text |-> "paris", type |-> "ENTITY_GPE", score |-> 100],
     [text |-> "orders", type |-> "NOUN", score |-> 70]}

\* the lists of at most two elements of S
ShortLists(S) == {<< >>} \cup {<<a>> : a \in S} \cup {<<a, b>> : a \in S, b \in S}

\* the values of max_keywords
MaxKeywordsChoices == {1, 2}

\* mutant of MergeKeyword: the first candidate of a text is kept whatever
\* the score of the later ones
MergeKeywordFirstSeen(unique, kw) ==
    IF \E i \in DOMAIN unique : unique[i].text = kw.text
    THEN unique
    ELSE Append(unique, kw)

\* keyword_extractor.py 220-226, 286-293, 173-180: unique_keywords[text]
\* keeps its place in the dict and is replaced by a candidate of strictly
\* higher score
MergeKeyword(unique, kw) ==
    IF \E i \in DOMAIN unique : unique[i].text = kw.text
    THEN LET i == CHOOSE j \in DOMAIN unique : unique[j].text = kw.text
         IN  IF kw.score > unique[i].score THEN [unique EXCEPT ![i] = kw] ELSE unique
    ELSE Append(unique, kw)

RECURSIVE UniqueKeywords(_)
UniqueKeywords(keywords) ==
    IF keywords = << >> THEN << >>
    ELSE MergeKeyword(UniqueKeywords(SubSeq(keywords, 1, Len(keywords) - 1)),
                      keywords[Len(keywords)])

\* sorted(unique_keywords.values(), key=score, reverse=True)[:max_keywords]
TopKeywords(keywords, max_keywords) ==
    Truncate(SortedByScore(UniqueKeywords(keywords)), max_keywords)

\* keyword_extractor.py 186-231
ExtractWithSpacy(e, text, max_keywords) == TopKeywords(e.nlp[text], max_keywords)

\* keyword_extractor.py 233-297
ExtractWithRegex(e, text, max_keywords) == TopKeywords(e.found[text], max_keywords)

\* mutant of ExtractOn: a hybrid call leaves the extractor in regex mode
ExtractDowngrading(e, text, max_keywords) ==
    IF e.method = "spacy" /\ e.nlp # None
    THEN [extractor |-> e, keywords |-> ExtractWithSpacy(e, text, max_keywords)]
    ELSE IF e.method = "regex"
    THEN [extractor |-> e, keywords |-> ExtractWithRegex(e, text, max_keywords)]
    ELSE [extractor |-> [e EXCEPT !.method = "regex"],
          keywords |-> TopKeywords(
              (IF e.nlp # None THEN ExtractWithSpacy(e, text, max_keywords) ELSE << >>)
                  \o ExtractWithRegex(e, text, max_keywords), max_keywords)]

\* keyword_extractor.py 148-184: the extractor after the call and the list
\* returned
ExtractOn(e, text, max_keywords) ==
    IF e.method = "spacy" /\ e.nlp # None
    THEN [extractor |-> e, keywords |-> ExtractWithSpacy(e, text, max_keywords)]
    ELSE IF e.method = "regex"
    THEN [extractor |-> e, keywords |-> ExtractWithRegex(e, text, max_keywords)]
    ELSE [extractor |-> e,
          keywords |-> TopKeywords(
              (IF e.nlp # None THEN ExtractWithSpacy(e, text, max_keywords) ELSE << >>)
                  \o ExtractWithRegex(e, text, max_keywords), max_keywords)]

\* keyword_extractor.py 29-47: the method asked for and whether the Spacy
\* model loaded; a failed load turns the method into regex, a missing Spacy
\* package leaves it
Extractors ==
    {[method |-> m, nlp |-> n, found |-> f] :
        m \in {"spacy", "regex", "hybrid"},
        n \in {None} \cup [ExtractTexts -> ShortLists(SpacyCandidates)],
        f \in [ExtractTexts -> ShortLists(RegexCandidates)]}

InitExtract ==
    /\ CoreIdle
    /\ LastIdle
    /\ match = Idle /\ req = Idle /\ prompt = Idle /\ ask = Idle /\ high = Idle
    /\ \E e \in Extractors :
         /\ e.method = "regex" => e.nlp = None
         /\ e.found["all orders"] \in ShortLists({c \in RegexCandidates : c.text = "orders"})
         /\ e.nlp # None =>
                e.nlp["all orders"] \in ShortLists({c \in SpacyCandidates : c.text = "orders"})
         /\ extr = [extractor |-> e, calls |-> << >>]

\* one call of extract(text, max_keywords)
Extract(text, max_keywords) ==
    LET r == ExtractOn(extr.extractor, text, max_keywords)
        call == [text |-> text, max_keywords |-> max_keywords,
                 before |-> extr.extractor, after |-> r.extractor,
                 keywords |-> r.keywords]
    IN  /\ extr' = [extractor |-> r.extractor,
                    calls |-> IF extr.calls = << >> THEN <<call>>
                              ELSE <<call, extr.calls[1]>>]
        /\ UNCHANGED <<coreVars, match, req, prompt, ask, high, scan, gen>>

NextExtract ==
    \E text \in ExtractTexts, max_keywords \in MaxKeywordsChoices :
        Extract(text, max_keywords)

SpecExtract == InitExtract /\ [][NextExtract]_vars

----------------------------------------------------------------------------
(* SubgraphRetriever._identify_highlighted_columns: SpecHighlight.         *)
(* subgraph_retriever.py 280-330.  Scores are in hundredths.               *)

\* <<table, column>> of the columns that matches and concepts may name
HighlightColumns == {<<"users", "city">>, <<"orders", "id">>}
\* the scores of column matches: fuzzy at the threshold, fuzzy, exact
ColumnScores == {FuzzyThreshold, 90, ExactScore}

\* subgraph_retriever.py 313: the score of a concept's related column
ConceptScore == 90

\* matched_entities["columns"] as match_entities returns it: one match per
\* column, sorted descending by score
ColumnMatchLists ==
    {ms \in UNION {[1..n -> [table_name : {"users", "orders"}, name : {"city", "id"},
                             score : ColumnScores]] : n \in 0..Cardinality(HighlightColumns)} :
        /\ \A i \in DOMAIN ms : <<ms[i].table_name, ms[i].name>> \in HighlightColumns
        /\ \A i, j \in DOMAIN ms :
               i < j => /\ <<ms[i].table_name, ms[i].name>> # <<ms[j].table_name, ms[j].name>>
                        /\ ms[i].score >= ms[j].score}

\* matched_entities["concepts"]: no concept, or one concept with its
\* related_columns list
ConceptMatchLists ==
    {<< >>} \cup
    {<<[concept |-> [related_columns |-> [i \in DOMAIN o |->
                                             [table |-> o[i][1], column |-> o[i][2]]]]]>> :
        o \in UNION {SetOrders(S) : S \in SUBSET HighlightColumns}}

\* subgraph_retriever.py 296-305
DirectHighlights(columns, tables) ==
    LET ms == SelectSeq(columns, LAMBDA m : m.table_name \in tables)
    IN  [i \in DOMAIN ms |-> [table |-> ms[i].table_name, column |-> ms[i].name,
                              reason |-> "direct_match", score |-> ms[i].score]]

\* subgraph_retriever.py 308-319
ConceptHighlights(concepts, tables) ==
    Flatten([k \in DOMAIN concepts |->
        LET rc == SelectSeq(concepts[k].concept.related_columns,
                            LAMBDA c : c.table \in tables)
        IN  [i \in DOMAIN rc |-> [table |-> rc[i].table, column |-> rc[i].column,
                                  reason |-> "concept_match", score |-> ConceptScore]]])

\* subgraph_retriever.py 322-328: the first item of every table.column key
RECURSIVE UniqueHighlighted(_, _)
UniqueHighlighted(items, seen) ==
    IF items = << >> THEN << >>
    ELSE LET key == <<Head(items).table, Head(items).column>>
         IN  IF key \in seen THEN UniqueHighlighted(Tail(items), seen)
             ELSE <<Head(items)>> \o UniqueHighlighted(Tail(items), seen \cup {key})

\* subgraph_retriever.py 280-330
IdentifyHighlightedColumns(matched_entities, tables) ==
    SortedByScore(UniqueHighlighted(
        DirectHighlights(matched_entities.columns, tables)
            \o ConceptHighlights(matched_entities.concepts, tables), {}))

InitHighlight ==
    /\ CoreIdle
    /\ LastIdle
    /\ match = Idle /\ req = Idle /\ prompt = Idle /\ ask = Idle /\ extr = Idle
    /\ \E cs \in ColumnMatchLists, ks \in ConceptMatchLists, ts \in SUBSET {"users", "orders"} :
           high = [phase |-> "input",
                   matched_entities |-> [columns |-> cs, concepts |-> ks],
                   tables |-> ts, highlighted |-> << >>]

\* one call of _identify_highlighted_columns(matched_entities, tables)
Highlight ==
    /\ high.phase = "input"
    /\ high' = [high EXCEPT !.phase = "done",
                    !.highlighted = IdentifyHighlightedColumns(high.matched_entities,
                                                               high.tables)]
    /\ UNCHANGED <<coreVars, match, req, prompt, ask, extr, scan, gen>>

NextHighlight == Highlight

SpecHighlight == InitHighlight /\ [][NextHighlight]_vars

\* C20: the highlighted-column list of a subgraph has at most one entry per
\* (table, column); when a column is both a direct match and a related
\* column of a matched concept with equal score, the entry kept has reason
\* concept_match; a direct_match entry carries its match score and a
\* concept_match entry carries 0.9; the list is sorted descending by score.
C20_HighlightedColumns ==
    high.phase = "done" =>
        LET h == high.highlighted
            cols == high.matched_entities.columns
            related == {<<c.table, c.column>> :
                           c \in UNION {Range(high.matched_entities.concepts[k]
                                                  .concept.related_columns) :
                                           k \in DOMAIN high.matched_entities.concepts}}
        IN  /\ \A i, j \in DOMAIN h :
                   i # j => <<h[i].table, h[i].column>> # <<h[j].table, h[j].column>>
            /\ \A i, j \in DOMAIN h : i < j => h[i].score >= h[j].score
            /\ \A i \in DOMAIN h :
                   /\ h[i].reason = "concept_match" => h[i].score = ConceptScore
                   /\ h[i].reason = "direct_match" =>
                          \E m \in DOMAIN cols :
                              /\ <<cols[m].table_name, cols[m].name>> = <<h[i].table, h[i].column>>
                              /\ cols[m].score = h[i].score
                   /\ (/\ <<h[i].table, h[i].column>> \in related
                       /\ \E m \in DOMAIN cols :
                              /\ <<cols[m].table_name, cols[m].name>> = <<h[i].table, h[i].column>>
                              /\ cols[m].score = ConceptScore)
                          => h[i].reason = "concept_match"

\* the candidates of the strategies that ran in a call: Spacy alone when the
\* method is spacy and the model is loaded, the patterns alone when the
\* method is regex or no model is loaded, both otherwise
CandidatesOfCall(c) ==
    (IF c.before.method # "regex" /\ c.before.nlp # None
     THEN Range(c.before.nlp[c.text]) ELSE {})
        \cup (IF c.before.method = "spacy" /\ c.before.nlp # None
              THEN {} ELSE Range(c.before.found[c.text]))

\* C23: the list returned by extract has at most max_keywords entries, is
\* sorted descending by score, contains each text at most once, and the
\* entry kept for a text is a candidate of maximum score (so it carries the
\* kind of a maximum-score candidate) among all the candidates with that
\* text from all the strategies that ran.
C23_TopUniqueMaxScore ==
    \A n \in DOMAIN extr.calls :
        LET c == extr.calls[n]
            k == c.keywords
        IN  /\ Len(k) <= c.max_keywords
            /\ \A i, j \in DOMAIN k : i < j => k[i].score >= k[j].score
            /\ \A i, j \in DOMAIN k : i # j => k[i].text # k[j].text
            /\ \A i \in DOMAIN k :
                   /\ k[i] \in CandidatesOfCall(c)
                   /\ \A d \in CandidatesOfCall(c) :
                          d.text = k[i].text => d.score <= k[i].score

\* a hybrid call in which the patterns found paris twice, the better
\* candidate second, Spacy found it with a higher score still and another
\* text as well, and the list was cut to one keyword: the Spacy entry
C23_CollisionAcrossStrategies ==
    /\ extr.calls # << >>
    /\ LET c == extr.calls[1]
       IN  /\ c.before.method = "hybrid"
           /\ c.before.nlp # None
           /\ c.text = "orders from paris"
           /\ c.max_keywords = 1
           /\ c.before.found[c.text] =
                  <<[text |-> "paris", type |-> "KEYWORD", score |-> 60],
                    [text |-> "paris", type |-> "LOCATION", score |-> 85]>>
           /\ c.before.nlp[c.text] =
                  <<[text |-> "orders", type |-> "NOUN", score |-> 70],
                    [text |-> "paris", type |-> "ENTITY_GPE", score |-> 100]>>
           /\ c.keywords = <<[text |-> "paris", type |-> "ENTITY_GPE", score |-> 100]>>

----------------------------------------------------------------------------
(* KeywordExtractor._extract_with_regex, character by character: SpecScan. *)
(* keyword_extractor.py 233-328.  A text is the list of its characters.    *)
(* The characters of the model are named in ASCII: ding, dan, jing, jin    *)
(* and tian are ideographs (U+4E00..U+9FA5), jing is one of the characters *)
(* of the LOCATION class, jin tian is the TIME word of line 252, tian is   *)
(* one of the unit characters of line 239.  Patterns that need a character *)
(* outside ScanChars (".", "%", the other units and time words) match in   *)
(* no text of the model.  Scores are in hundredths.                        *)

Ideographs == {"ding", "dan", "jing", "jin", "tian"}
Letters == {"a", "s"}
Digits == {"7"}
ScanChars == Ideographs \cup Letters \cup Digits \cup {" "}
\* the characters \w matches
WordChars == Ideographs \cup Letters \cup Digits

\* the question texts have 1..MaxTextLen characters
MaxTextLen == 4
ScanTexts == UNION {[1..n -> ScanChars] : n \in 1..MaxTextLen}

\* keyword_extractor.py 239: the characters of the class after \d+
UnitChars == {"tian"}
\* keyword_extractor.py 252: the alternatives of the first TIME pattern
TimeWords == {<<"jin", "tian">>}
\* keyword_extractor.py 263: the characters of the class [...]
LocationChars == {"jing"}
\* keyword_extractor.py 82-146, 53-77: the stop words and the SQL keywords
\* that texts over Letters can spell
StopWords == {<<"a">>, <<"a", "s">>}
SqlKeywords == {<<"a", "s">>}

\* keyword_extractor.py 270: for length in [6, 5, 4, 3, 2]
WindowLengths == <<6, 5, 4, 3, 2>>

\* the number of characters of S that text has from position i on without a
\* break
RECURSIVE RunLength(_, _, _)
RunLength(text, i, S) ==
    IF i > Len(text) \/ text[i] \notin S THEN 0 ELSE 1 + RunLength(text, i + 1, S)

\* the matches found scanning from position i, leftmost first and without
\* overlap; lens[j] is the length of the match that starts at j, 0 if none
\* does
RECURSIVE ScanFrom(_, _, _)
ScanFrom(text, lens, i) ==
    IF i > Len(text) THEN << >>
    ELSE IF lens[i] > 0
    THEN <<SubSeq(text, i, i + lens[i] - 1)>> \o ScanFrom(text, lens, i + lens[i])
    ELSE ScanFrom(text, lens, i + 1)

\* re.finditer / re.findall
FindAll(text, lens) == ScanFrom(text, lens, 1)

\* \d+[units]: a run of digits and one unit character
NumberMatchLen(text, i) ==
    LET k == RunLength(text, i, Digits)
    IN  IF k > 0 /\ i + k <= Len(text) /\ text[i + k] \in UnitChars THEN k + 1 ELSE 0

\* (w1|w2|...): one of the time words
TimeMatchLen(text, i) ==
    IF \E w \in TimeWords : i + Len(w) - 1 <= Len(text) /\ SubSeq(text, i, i + Len(w) - 1) = w
    THEN 2 ELSE 0

\* [...]: a character class matches one character
LocationMatchLen(text, i) == IF text[i] \in LocationChars THEN 1 ELSE 0

\* \b[a-zA-Z]{2,}\b: a run of two letters or more between word boundaries
EnglishMatchLen(text, i) ==
    LET k == RunLength(text, i, Letters)
    IN  IF /\ k >= 2
           /\ (i = 1 \/ text[i - 1] \notin WordChars)
           /\ (i + k > Len(text) \/ text[i + k] \notin WordChars)
        THEN k ELSE 0

\* keyword_extractor.py 299-328 (the texts tested hold no upper-case letter,
\* no blank at either end and one word character at least)
ShouldInclude(text) ==
    /\ text # << >>
    /\ Len(text) >= 2
    /\ text \notin StopWords
    /\ text \notin SqlKeywords

\* keyword_extractor.py 270-277: the windows of one length; score
\* 0.5 + length * 0.05
WindowsOfLength(text, length) ==
    LET words == FindAll(text, [i \in DOMAIN text |->
                     IF RunLength(text, i, Ideographs) >= length THEN length ELSE 0])
        kept == SelectSeq(words, ShouldInclude)
    IN  [j \in DOMAIN kept |->
            [text |-> kept[j], type |-> "KEYWORD", score |-> 50 + 5 * length]]

\* a list of matches as candidates of one kind and score
AsCandidates(words, type, score) ==
    [j \in DOMAIN words |-> [text |-> words[j], type |-> type, score |-> score]]

\* keyword_extractor.py 235-283: the list `keywords` before the dedup
RegexKeywords(text) ==
    AsCandidates(FindAll(text, [i \in DOMAIN text |-> NumberMatchLen(text, i)]), "NUMBER", 90)
        \o AsCandidates(FindAll(text, [i \in DOMAIN text |-> TimeMatchLen(text, i)]), "TIME", 85)
        \o AsCandidates(FindAll(text, [i \in DOMAIN text |-> LocationMatchLen(text, i)]), "LOCATION", 85)
        \o Flatten([n \in DOMAIN WindowLengths |-> WindowsOfLength(text, WindowLengths[n])])
        \o AsCandidates(SelectSeq(FindAll(text, [i \in DOMAIN text |-> EnglishMatchLen(text, i)]), ShouldInclude), "KEYWORD", 60)

InitScan ==
    /\ CoreIdle
    /\ match = Idle /\ req = Idle /\ prompt = Idle /\ ask = Idle /\ extr = Idle
    /\ high = Idle /\ gen = Idle
    /\ \E text \in ScanTexts, max_keywords \in {1, 15} :
           scan = [phase |-> "input", text |-> text, max_keywords |-> max_keywords,
                   candidates |-> << >>, keywords |-> << >>]

\* one call of extract(text, max_keywords) on an extractor of method regex
\* (keyword_extractor.py 164-165)
Scan ==
    /\ scan.phase = "input"
    /\ scan' = [scan EXCEPT !.phase = "done",
                    !.candidates = RegexKeywords(scan.text),
                    !.keywords = TopKeywords(RegexKeywords(scan.text), scan.max_keywords)]
    /\ UNCHANGED <<coreVars, match, req, prompt, ask, extr, high, gen>>

NextScan == Scan

SpecScan == InitScan /\ [][NextScan]_vars

\* C21: no keyword returned by the extractor is shorter than 2 characters,
\* is in the stop-word set, or equals a reserved SQL keyword; this holds for
\* every keyword kind, including NUMBER, TIME and LOCATION entries produced
\* by the pattern strategy.
C21_KeywordsPassFilter ==
    scan.phase = "done" =>
        \A j \in DOMAIN scan.keywords :
            /\ Len(scan.keywords[j].text) >= 2
            /\ scan.keywords[j].text \notin StopWords
            /\ scan.keywords[j].text \notin SqlKeywords

\* C22: for each window length L from 6 down to 2, the pattern strategy
\* yields every window of L contiguous ideographic characters of the
\* question (every start offset inside a run, i.e. a sliding window) that
\* passes the filter, as a KEYWORD candidate with score 0.5 + 0.05*L.
C22_SlidingWindow ==
    scan.phase = "done" =>
        \A n \in DOMAIN WindowLengths :
            LET L == WindowLengths[n]
            IN  \A i \in 1..(Len(scan.text) - L + 1) :
                    LET w == SubSeq(scan.text, i, i + L - 1)
                    IN  ((\A k \in DOMAIN w : w[k] \in Ideographs) /\ ShouldInclude(w))
                            => \E c \in DOMAIN scan.candidates :
                                   scan.candidates[c] =
                                       [text |-> w, type |-> "KEYWORD", score |-> 50 + 5 * L]

----------------------------------------------------------------------------
(* SQLGenerator.generate_sql: SpecGenerate.  sql_generator.py 85-175.      *)
(* One call, attempt by attempt.  What an attempt comes to is drawn: the   *)
(* model answers SQL that validates, it answers text that validate_sql     *)
(* rejects, or building the prompt or calling the model raises.  The       *)
(* callers pass no max_retries and no retry_on_error (text2sql.py 256,     *)
(* sql_generator.py 321); the model draws max_retries from 0..MaxRetries.  *)

\* sql_generator.py 91: max_retries: int = 2
MaxRetries == 2

\* the SQL texts that validate
GenSqls == {"SELECT 1", "SELECT 2"}
\* sql_generator.py 149: the message of the ValueError raised for SQL that
\* does not validate
InvalidSqlError == "generated SQL is invalid"
\* str(e) of what build_prompt, optimize_prompt_length or _call_llm raise
LlmErrors == {"timeout", "rate limit"}

\* what an attempt may come to
AttemptOutcomes ==
    {[kind |-> "sql", text |-> s] : s \in GenSqls}
        \cup {[kind |-> "invalid", text |-> InvalidSqlError]}
        \cup {[kind |-> "raised", text |-> e] : e \in LlmErrors}

NoResult == [sql |-> NoText, success |-> FALSE, error |-> NoText, attempts |-> 0]

\* mutant of GenerateStep: a failed attempt is retried whatever
\* retry_on_error says
GenerateStepAlwaysRetrying(g, outcome) ==
    LET attempts == g.attempts + 1
        made == Append(g.made, outcome)
    IN  IF outcome.kind = "sql"
        THEN [g EXCEPT !.phase = "done", !.attempts = attempts, !.made = made,
                  !.result = [sql |-> outcome.text, success |-> TRUE,
                              error |-> NoText, attempts |-> attempts]]
        ELSE IF attempts > g.max_retries
        THEN [g EXCEPT !.phase = "done", !.attempts = attempts, !.made = made,
                  !.last_error = outcome.text,
                  !.result = [sql |-> NoText, success |-> FALSE,
                              error |-> outcome.text, attempts |-> attempts]]
        ELSE [g EXCEPT !.attempts = attempts, !.made = made, !.last_error = outcome.text]

\* sql_generator.py 117-175: one pass of the while loop, entered with
\* attempts <= max_retries, and the return that follows a break; g.made
\* lists what the attempts made so far came to
GenerateStep(g, outcome) ==
    LET attempts == g.attempts + 1
        made == Append(g.made, outcome)
    IN  IF outcome.kind = "sql"
        THEN [g EXCEPT !.phase = "done", !.attempts = attempts, !.made = made,
                  !.result = [sql |-> outcome.text, success |-> TRUE,
                              error |-> NoText, attempts |-> attempts]]
        ELSE IF ~g.retry_on_error \/ attempts > g.max_retries
        THEN [g EXCEPT !.phase = "done", !.attempts = attempts, !.made = made,
                  !.last_error = outcome.text,
                  !.result = [sql |-> NoText, success |-> FALSE,
                              error |-> outcome.text, attempts |-> attempts]]
        ELSE [g EXCEPT !.attempts = attempts, !.made = made, !.last_error = outcome.text]

\* sql_generator.py 114-115: attempts = 0, last_error = None
InitGenerate ==
    /\ CoreIdle
    /\ match = Idle /\ req = Idle /\ prompt = Idle /\ ask = Idle /\ extr = Idle
    /\ high = Idle /\ scan = Idle
    /\ \E retry_on_error \in BOOLEAN, max_retries \in 0..MaxRetries :
           gen = [phase |-> "running", retry_on_error |-> retry_on_error,
                  max_retries |-> max_retries, attempts |-> 0, last_error |-> NoText,
                  made |-> << >>, result |-> NoResult]

genFrame == <<coreVars, match, req, prompt, ask, extr, high, scan>>

\* an attempt whose SQL validates: the call returns it
AttemptSucceeds ==
    /\ gen.phase = "running"
    /\ gen.attempts <= gen.max_retries
    /\ \E outcome \in {o \in AttemptOutcomes : o.kind = "sql"} :
           gen' = GenerateStep(gen, outcome)
    /\ UNCHANGED genFrame

\* an attempt that raises or whose SQL does not validate: the loop goes on
\* or the call returns the failure
AttemptFails ==
    /\ gen.phase = "running"
    /\ gen.attempts <= gen.max_retries
    /\ \E outcome \in {o \in AttemptOutcomes : o.kind # "sql"} :
           gen' = GenerateStep(gen, outcome)
    /\ UNCHANGED genFrame

NextGenerate ==
    \/ AttemptSucceeds
    \/ AttemptFails

\* the loop is sequential code of one caller: a call that has not returned
\* goes on to its next attempt
SpecGenerate == InitGenerate /\ [][NextGenerate]_vars /\ WF_vars(NextGenerate)

\* the attempts made so far and, once the call has returned, its result
GenerateBounded ==
    /\ gen.attempts = Len(gen.made)
    /\ Len(gen.made) <= gen.max_retries + 1
    /\ gen.phase = "done" =>
           LET n == Len(gen.made)
               r == gen.result
           IN  /\ n >= 1
               /\ r.attempts = n
               /\ ~gen.retry_on_error => n = 1
               /\ \A i \in 1..(n - 1) : gen.made[i].kind # "sql"
               /\ r.success <=> gen.made[n].kind = "sql"
               /\ r.success => r.sql = gen.made[n].text /\ r.error = NoText
               /\ ~r.success =>
                      /\ r.sql = NoText
                      /\ r.error = gen.made[n].text
                      /\ gen.retry_on_error => n = gen.max_retries + 1

\* C30: SQLGenerator.generate_sql always terminates after at most
\* max_retries + 1 attempts (exactly one attempt when retry_on_error is
\* false): it returns success with the SQL of the first attempt whose output
\* validates, otherwise failure carrying the last error, and the reported
\* attempts equals the number of attempts actually made.
C30_TerminatesWithinRetries == []GenerateBounded /\ <>(gen.phase = "done")

\* a call with retries that returned the SQL of its third attempt after two
\* failures of different kinds
C30_SucceededOnLastRetry ==
    /\ gen.phase = "done"
    /\ gen.retry_on_error
    /\ gen.max_retries = 2
    /\ Len(gen.made) = 3
    /\ gen.made[1].kind = "raised"
    /\ gen.made[2].kind = "invalid"
    /\ gen.result = [sql |-> "SELECT 2", success |-> TRUE, error |-> NoText, attempts |-> 3]

====
